---- MODULE Spec2Model ----
(***************************************************************************)
(* Content cache of image-creator: the eviction engine                     *)
(* (cache/manager.py get_eviction_for), the policy tree (cache/policy.py)  *)
(* and the CacheManager operations (walk, in_cache, add_candidate, apply,  *)
(* apply_candidates, should_cache, introduce, evict, evict_outdated).      *)
(* The download steps as consumers of the cache (steps/base.py,            *)
(* steps/contents.py, steps/oci_images.py), the step machine               *)
(* (steps/machine.py) and its driver (creator.py, entrypoint.py).          *)
(*                                                                         *)
(* Sizes are bytes, times are whole clock ticks (datetime.utcnow()).       *)
(* Unset policy bounds (None or 0, both falsy in the code) are 0.          *)
(***************************************************************************)
EXTENDS Integers, Sequences, FiniteSets, TLC

(***************************************************************************)
(* Bounds of the model                                                     *)
(***************************************************************************)
\* last clock value the model lets utcnow() reach
MaxTime == 4
\* cap on nb_used so that mark_usage stays finite
MaxUsed == 2

(***************************************************************************)
(* Values                                                                  *)
(***************************************************************************)
\* CacheEntry.check_after = None (manager.py:125), policy.check_after unset
NoCheckAfter == -1
\* utcnow() at CacheManager construction (manager.py:432); files already on
\* disk were added at an earlier instant
RefDate == 3
\* get_online_rsc_size: -1 when the size is unknown (download.py:40)
UnknownSize == -1

Evictions == {"oldest", "newest", "largest", "smallest", "lru"}

\* the sources a run can declare; their CacheKey is the name
Keys == {"A", "B", "C"}

\* the images of scenario S5, and the file of scenario S4, whose source is
\* ftp://h/z
Images == {"img:1.0", "img:1.1", "img:1.2", "img:2.0"}
FtpKeys == {"Z"}

\* File.kind / OCIImage.kind of the item behind a key
KindOf(k) == IF k \in Images THEN "image" ELSE "file"

\* scheme of the source URL behind a key
SchemeOf(k) ==
    CASE k \in FtpKeys -> "ftp" [] k \in Images -> "-" [] OTHER -> "http"

\* bytes of the remote artifact behind a key
SizeOf(k) ==
    CASE k = "A" -> 60 [] k = "B" -> 50 [] k \in FtpKeys -> 30 [] OTHER -> 40

\* position of a key in a directory listing
KeyRank(k) ==
    CASE k \in {"A", "img:1.0"} -> 1 [] k \in {"B", "img:1.1"} -> 2
      [] k \in {"Z", "img:2.0"} -> 4 [] OTHER -> 3

\* RE_OCI_VERSIONED / RE_FILES_VERSIONED on the key: <<>> when the path is
\* not versioned, else the version as its natural-sort key (the numbers)
VersionOf(k) ==
    CASE k = "img:1.0" -> <<1, 0>> [] k = "img:1.1" -> <<1, 1>>
      [] k = "img:1.2" -> <<1, 2>> [] k = "img:2.0" -> <<2, 0>>
      [] OTHER -> << >>

\* the ident group of a versioned key
IdentOf(k) == IF k \in Images THEN "img" ELSE k

(***************************************************************************)
(* Policy tree (cache/policy.py)                                           *)
(***************************************************************************)
\* SubPolicyFilter: pattern is the set of URL schemes the regex matches
Filter(pattern, ignore, max_size, max_age, max_num, eviction, check_after, kiv) ==
    [pattern |-> pattern, ignore |-> ignore, max_size |-> max_size,
     max_age |-> max_age, max_num |-> max_num, eviction |-> eviction,
     check_after |-> check_after, keep_identified_versions |-> kiv]

\* SubPolicy (OCIImagePolicy, FilesPolicy)
SubPolicy(enabled, max_size, max_age, max_num, eviction, check_after, kiv, filters) ==
    [enabled |-> enabled, max_size |-> max_size, max_age |-> max_age,
     max_num |-> max_num, eviction |-> eviction, check_after |-> check_after,
     keep_identified_versions |-> kiv, filters |-> filters]

\* SubPolicy(): the default_factory of MainPolicy.oci_images / files
DefaultSubPolicy == SubPolicy(TRUE, 0, 0, 0, "lru", NoCheckAfter, 0, << >>)

\* MainPolicy
MainPolicy(enabled, max_size, max_age, max_num, eviction, check_after, kiv, oci, files) ==
    [enabled |-> enabled, max_size |-> max_size, max_age |-> max_age,
     max_num |-> max_num, eviction |-> eviction, check_after |-> check_after,
     keep_identified_versions |-> kiv, filters |-> << >>,
     oci_images |-> oci, files |-> files]

\* the regex a set of schemes stands for
PatternText(pattern) ==
    CASE pattern = {"ftp"} -> "^ftp://" [] pattern = {"http"} -> "^http://"
      [] OTHER -> "^[a-z]+://"

\* SubPolicyFilter.match: re.match(pattern, source, re.IGNORECASE)
FilterMatch(filter_, k) == SchemeOf(k) \in filter_.pattern

\* CommonParamsMixin.max_age_dt: the instant max_age before now, 0 when unset
MaxAgeDt(node, now_) == now_ - node.max_age

\* is_http(entry.source)
IsHttp(k) == SchemeOf(k) \in {"http", "https"}

(***************************************************************************)
(* sort_for: sorted() is stable, also with reverse=True                    *)
(***************************************************************************)
SortKey(eviction, e) ==
    CASE eviction \in {"oldest", "newest"} -> e.added_on
      [] eviction \in {"largest", "smallest"} -> e.size
      [] OTHER -> e.last_used_on

SortReverse_but_lru(eviction) == eviction \in {"newest", "smallest"}

SortReverse(eviction) == eviction \in {"newest", "smallest", "lru"}

\* whether a sorts strictly before b
SortsBefore(eviction, a, b) ==
    IF SortReverse(eviction)
    THEN SortKey(eviction, a) > SortKey(eviction, b)
    ELSE SortKey(eviction, a) < SortKey(eviction, b)

\* insert index x behind every index of the sorted seq it does not precede
RECURSIVE SortInsert(_, _, _, _)
SortInsert(eviction, es, sorted, x) ==
    IF sorted = << >> THEN <<x>>
    ELSE IF SortsBefore(eviction, es[x], es[Head(sorted)])
         THEN <<x>> \o sorted
         ELSE <<Head(sorted)>> \o SortInsert(eviction, es, Tail(sorted), x)

\* sort_for(eviction, iterable) over the indices sel of es
RECURSIVE sort_for(_, _, _)
sort_for(eviction, es, sel) ==
    IF sel = << >> THEN << >>
    ELSE SortInsert(eviction, es,
                    sort_for(eviction, es, SubSeq(sel, 1, Len(sel) - 1)),
                    sel[Len(sel)])

(***************************************************************************)
(* get_eviction_for (manager.py:207-424)                                   *)
(*                                                                         *)
(* es is the list of entry objects, sel the indices of those passed to the *)
(* call, in list order. The running state st of a scan holds num and size  *)
(* (the running totals), ev (the (entry, reason) pairs), seen and ca (the  *)
(* __seen and check_after attributes of the objects) and ver (the admitted *)
(* versioned entries, in admission order).                                 *)
(***************************************************************************)
Reason(by, why) == [by |-> by, why |-> why]

\* matched_ident_version: the regex is applied to str(entry.fpath), which is
\* absolute for a CacheEntry and relative for a fresh CacheCandidate
matched_ident_version(e) ==
    IF VersionOf(e.key) = << >>
    THEN [found |-> FALSE, ident |-> <<e.abs, e.key>>, version |-> << >>]
    ELSE [found |-> TRUE, ident |-> <<e.abs, IdentOf(e.key)>>,
          version |-> VersionOf(e.key)]

\* natural order of two version keys (tuples of numbers)
RECURSIVE VersionLess(_, _)
VersionLess(v, w) ==
    IF v = << >> THEN w # << >>
    ELSE IF w = << >> THEN FALSE
    ELSE IF Head(v) # Head(w) THEN Head(v) < Head(w)
    ELSE VersionLess(Tail(v), Tail(w))

\* natsorted(entries, key=version): stable insertion of index x
RECURSIVE NatInsert(_, _, _)
NatInsert(es, sorted, x) ==
    IF sorted = << >> THEN <<x>>
    ELSE IF VersionLess(VersionOf(es[x].key), VersionOf(es[Head(sorted)].key))
         THEN <<x>> \o sorted
         ELSE <<Head(sorted)>> \o NatInsert(es, Tail(sorted), x)

RECURSIVE natsorted(_, _)
natsorted(es, sel) ==
    IF sel = << >> THEN << >>
    ELSE NatInsert(es, natsorted(es, SubSeq(sel, 1, Len(sel) - 1)), sel[Len(sel)])

\* the entries of ver that version retention drops: per ident, all but the
\* keep naturally-highest versions (natsorted(...)[:-keep])
AllButLast(g, keep) ==
    IF Len(g) <= keep THEN {} ELSE {g[j] : j \in 1..(Len(g) - keep)}

Obsolete(es, ver, keep) ==
    IF keep = 0 THEN {}
    ELSE UNION {AllButLast(
                    natsorted(es, SelectSeq(ver,
                        LAMBDA x : matched_ident_version(es[x]).ident = id)),
                    keep) :
                id \in {matched_ident_version(es[ver[j]]).ident : j \in 1..Len(ver)}}

\* the filter loop without its look at __seen
FilterStep_any_match(es, filter_, now_, st, x) ==
    LET e == es[x] IN
    IF ~FilterMatch(filter_, e.key) THEN st
    ELSE
    LET s1 == [st EXCEPT !.seen = @ \cup {x},
                         !.ca = IF filter_.check_after # NoCheckAfter
                                THEN [@ EXCEPT ![x] = filter_.check_after]
                                ELSE @]
    IN
    IF filter_.ignore
    THEN [s1 EXCEPT !.ev = @ \cup {<<x, Reason("filter", "ignored pattern " \o PatternText(filter_.pattern))>>}]
    ELSE IF filter_.max_age # 0 /\ e.added_on < MaxAgeDt(filter_, now_)
    THEN [s1 EXCEPT !.ev = @ \cup {<<x, Reason("filter", "Too old for max_age")>>}]
    ELSE IF filter_.max_size # 0 /\ s1.size + e.size > filter_.max_size
    THEN [s1 EXCEPT !.ev = @ \cup {<<x, Reason("filter", "Would exceed max_size")>>}]
    ELSE IF filter_.max_num # 0 /\ s1.num + 1 > filter_.max_num
    THEN [s1 EXCEPT !.ev = @ \cup {<<x, Reason("filter", "Would exceed max_num")>>}]
    ELSE [s1 EXCEPT !.size = @ + e.size, !.num = @ + 1,
                    !.ver = IF filter_.keep_identified_versions # 0
                               /\ matched_ident_version(e).found
                            THEN Append(@, x) ELSE @]

\* one iteration of the filter loop (manager.py:265-324) on entry index x
FilterStep(es, filter_, now_, st, x) ==
    LET e == es[x] IN
    IF ~FilterMatch(filter_, e.key) \/ x \in st.seen THEN st
    ELSE
    LET s1 == [st EXCEPT !.seen = @ \cup {x},
                         !.ca = IF filter_.check_after # NoCheckAfter
                                THEN [@ EXCEPT ![x] = filter_.check_after]
                                ELSE @]
    IN
    IF filter_.ignore
    THEN [s1 EXCEPT !.ev = @ \cup {<<x, Reason("filter", "ignored pattern " \o PatternText(filter_.pattern))>>}]
    ELSE IF filter_.max_age # 0 /\ e.added_on < MaxAgeDt(filter_, now_)
    THEN [s1 EXCEPT !.ev = @ \cup {<<x, Reason("filter", "Too old for max_age")>>}]
    ELSE IF filter_.max_size # 0 /\ s1.size + e.size > filter_.max_size
    THEN [s1 EXCEPT !.ev = @ \cup {<<x, Reason("filter", "Would exceed max_size")>>}]
    ELSE IF filter_.max_num # 0 /\ s1.num + 1 > filter_.max_num
    THEN [s1 EXCEPT !.ev = @ \cup {<<x, Reason("filter", "Would exceed max_num")>>}]
    ELSE [s1 EXCEPT !.size = @ + e.size, !.num = @ + 1,
                    !.ver = IF filter_.keep_identified_versions # 0
                               /\ matched_ident_version(e).found
                            THEN Append(@, x) ELSE @]

RECURSIVE FilterScan(_, _, _, _, _)
FilterScan(es, filter_, now_, st, order) ==
    IF order = << >> THEN st
    ELSE FilterScan(es, filter_, now_, FilterStep(es, filter_, now_, st, Head(order)),
                    Tail(order))

\* version retention after a scan that ended in st (manager.py:326-345,
\* 403-422)
Retention(es, node, level, st) ==
    [st EXCEPT !.ev = @ \cup
        {<<x, Reason(level, "Version now obsolete")>> :
            x \in Obsolete(es, st.ver, node.keep_identified_versions)}]

\* the whole pass of one filter: the scan, then its version retention
FilterPass(es, sel, filter_, now_, st) ==
    Retention(es, filter_, "filter",
              FilterScan(es, filter_, now_,
                         [st EXCEPT !.num = 0, !.size = 0, !.ver = << >>],
                         sort_for(filter_.eviction, es, sel)))

RECURSIVE FiltersPhase(_, _, _, _, _)
FiltersPhase(es, sel, filters, now_, st) ==
    IF filters = << >> THEN st
    ELSE FiltersPhase(es, sel, Tail(filters), now_,
                      FilterPass(es, sel, Head(filters), now_, st))

\* one iteration of the policy-level loop (manager.py:350-401)
PolicyStep(es, node, level, now_, st, x) ==
    LET e == es[x]
        s1 == [st EXCEPT !.ca = IF node.check_after # NoCheckAfter
                                THEN [@ EXCEPT ![x] = node.check_after]
                                ELSE @]
    IN
    IF KindOf(e.key) = "file" /\ ~IsHttp(e.key)
    THEN [s1 EXCEPT !.ev = @ \cup {<<x, Reason(level, "Source protocol not cacheable")>>}]
    ELSE IF node.max_age # 0 /\ e.added_on < MaxAgeDt(node, now_)
    THEN [s1 EXCEPT !.ev = @ \cup {<<x, Reason(level, "Too old for max_age")>>}]
    ELSE IF node.max_size # 0 /\ s1.size + e.size > node.max_size
    THEN [s1 EXCEPT !.ev = @ \cup {<<x, Reason(level, "Would exceed max_size")>>}]
    ELSE IF node.max_num # 0 /\ s1.num + 1 > node.max_num
    THEN [s1 EXCEPT !.ev = @ \cup {<<x, Reason(level, "Would exceed max_num")>>}]
    ELSE [s1 EXCEPT !.size = @ + e.size, !.num = @ + 1,
                    !.ver = IF node.keep_identified_versions # 0
                               /\ matched_ident_version(e).found
                            THEN Append(@, x) ELSE @]

RECURSIVE PolicyScan(_, _, _, _, _, _)
PolicyScan(es, node, level, now_, st, order) ==
    IF order = << >> THEN st
    ELSE PolicyScan(es, node, level, now_,
                    PolicyStep(es, node, level, now_, st, Head(order)), Tail(order))

\* the policy-level phase: the scan, then its version retention
PolicyPhase(es, sel, node, level, now_, st) ==
    Retention(es, node, level,
              PolicyScan(es, node, level, now_,
                         [st EXCEPT !.num = 0, !.size = 0, !.ver = << >>],
                         sort_for(node.eviction, es, sel)))

\* the attributes of the objects as a scan state
ScanState(es) ==
    [num |-> 0, size |-> 0, ev |-> {}, ver |-> << >>,
     seen |-> {x \in 1..Len(es) : es[x].seen},
     ca |-> [x \in 1..Len(es) |-> es[x].check_after]]

\* the objects with the attributes a scan left on them
WithAttrs(es, st) ==
    [x \in 1..Len(es) |->
        [es[x] EXCEPT !.seen = (x \in st.seen), !.check_after = st.ca[x]]]

\* get_eviction_for(entries, policy): the (entry, reason) pairs and the
\* objects as the call leaves them
\* what a call returns and leaves, from the scan state it ended in
Outcome(es, st) == [ev |-> st.ev, es |-> WithAttrs(es, st)]

get_eviction_for(es, sel, node, level, now_) ==
    IF ~node.enabled THEN [ev |-> {}, es |-> es]
    ELSE Outcome(es, PolicyPhase(es, sel, node, level, now_,
                         FiltersPhase(es, sel, node.filters, now_, ScanState(es))))

(***************************************************************************)
(* State                                                                   *)
(***************************************************************************)
VARIABLES
    policy,      \* CacheManager.policy, fixed at construction
    now,         \* datetime.utcnow()
    disk,        \* per CacheKey, the file under the cache root (or NoFile)
    entries,     \* CacheManager.entries, in dict order
    candidates,  \* CacheManager.candidates, in dict order
    discovered,  \* CacheManager.discovered
    applied,     \* CacheManager.applied
    considered,  \* CacheManager.considered
    declared,    \* the sources the run's configuration declares
    screened,    \* history: the candidates an apply_candidates pass has
                 \* evaluated since they were added
    last         \* the last call: operation, item, return value, the remote
                 \* digest queries it made as (key, answer) pairs; whether a
                 \* file deletion has failed so far; for a direct call of
                 \* get_eviction_for, the keys it returned for eviction

\* the driver (entrypoint.main, ImageCreator) and its StepMachine
VARIABLES
    options,     \* Global.options: check_only, show_cache, keep_failed,
                 \* overwrite, and whether cache_dir is set
    steps,       \* StepMachine.steps, the class-level list of step classes
    pc,          \* where main() stands: "new" (ImageCreator constructed, the
                 \* exit hook registered), "running" (machine built, between
                 \* two steps), "returned" (run returned or the interpreter
                 \* is exiting), "raised" (run raised an Exception),
                 \* "handled" (main's except branch called halt), "exited"
    built,       \* whether ImageCreator.machine exists
    current,     \* StepMachine._current
    succeeded,   \* payload["succeeded"]
    image,       \* payload["image"]: whether it is set, and its loop_dev,
                 \* p1_mounted_on and p3_mounted_on (TRUE: set)
    output,      \* whether a file exists at options.output_path
    result,      \* what ImageCreator.run returned ("none": nothing yet)
    ran,         \* history: the steps whose run was invoked, in order
    halts,       \* history: the number of ImageCreator.halt calls so far
    haltRaised,  \* history: whether a call of ImageCreator.halt raised
    cleaned,     \* history: the step indices whose cleanup the last halt
                 \* invoked, in order
    cmds         \* history: the umount, detach and unlink commands the
                 \* halts issued so far, in order, each with its outcome

\* the steps that check and download the declared sources, and the
\* functions studied on inputs of their own
VARIABLES
    todo,        \* CheckURLs.run: the declared items its loops have not
                 \* reached yet, in order
    all_valid,   \* CheckURLs.run: all_valid
    code,        \* what the step's run returned: "none" (still running),
                 \* "0", "1", "4", or "raised" (an exception left it)
    found,       \* history: the items CheckURLs examined, and those whose
                 \* source it found unreachable
    workers,     \* DownloadingContent: per remote file, where its
                 \* download_file_worker call or its Future stands
    futures,     \* FilesMultiDownloader.futures: the files whose Future
                 \* notify_completion has not popped
    is_running,  \* FilesMultiDownloader.is_running
    args,        \* the inputs of the step or of the function studied
    value        \* what the function studied returned ("-": not applied)

\* the aria2 downloader (utils/aria2.py)
VARIABLES
    downloads,      \* Downloader.downloads: the Download objects add()
                    \* returned, each with the status aria2 reports for it
                    \* and for its followers
    halt_on_error,  \* Downloader.halt_on_error
    is_halted,      \* Downloader.is_halted
    is_listening,   \* Downloader.is_listening
    notifications,  \* the aria2 notifications the listening thread has
                    \* not handled yet, in order, as (event, gid) pairs
    paths,          \* the file system around the target of the download:
                    \* the temporary folder, the path `to` and how it came
                    \* to exist, and the directories aria2 wrote data in
    blocked         \* where the caller of Download.block() stands: "idle",
                    \* "waiting", "returned" or "raised"

cacheVars == <<policy, now, disk, entries, candidates, discovered, applied,
               considered, declared, screened, last>>

machineVars == <<options, steps, pc, built, current, succeeded, image, output,
                 result, ran, halts, haltRaised, cleaned, cmds>>

stepVars == <<todo, all_valid, code, found, workers, futures, is_running,
              args, value>>

ariaVars == <<downloads, halt_on_error, is_halted, is_listening,
              notifications, paths, blocked>>

vars == <<cacheVars, machineVars, stepVars, ariaVars>>

NoFile == [exists |-> FALSE]

\* CacheCandidate.__init__ never sets check_after: the attribute is missing
\* until get_eviction_for assigns it (manager.py:194-204)
MissingAttr == -2

\* digests a remote can answer with; "" is "no digest"
Digests == {"", "d1", "d2"}

\* outcome of a remote digest query: a digest, or an exception
QueryOutcomes == {"d1", "d2", "error"}

\* a file with its extended attributes; meta is FALSE when the digest
\* attribute is absent (file_is_entry)
File(size, meta, added_on, last_checked_on, last_used_on, nb_used, digest) ==
    [exists |-> TRUE, size |-> size, meta |-> meta, added_on |-> added_on,
     last_checked_on |-> last_checked_on, last_used_on |-> last_used_on,
     nb_used |-> nb_used, digest |-> digest]

\* CacheEntry.__init__(fpath): the object read from a file (manager.py:111-125)
CacheEntry(k, f) ==
    [key |-> k, cand |-> FALSE, abs |-> TRUE, size |-> f.size,
     added_on |-> f.added_on, last_checked_on |-> f.last_checked_on,
     last_used_on |-> f.last_used_on, nb_used |-> f.nb_used,
     digest |-> f.digest, check_after |-> NoCheckAfter, seen |-> FALSE]

\* CacheCandidate.__init__(item, added_on) (manager.py:194-204)
CacheCandidate(k, size, digest, added_on) ==
    [key |-> k, cand |-> TRUE, abs |-> FALSE, size |-> size,
     added_on |-> added_on, last_checked_on |-> added_on,
     last_used_on |-> added_on, nb_used |-> 0,
     digest |-> digest, check_after |-> MissingAttr, seen |-> FALSE]

\* dict helpers over a sequence of objects keyed by .key
KeysOf(seq) == {seq[i].key : i \in 1..Len(seq)}
IndexOf(seq, k) == CHOOSE i \in 1..Len(seq) : seq[i].key = k
Get(seq, k) == seq[IndexOf(seq, k)]
Without(seq, k) == SelectSeq(seq, LAMBDA e : e.key # k)
\* d[k] = obj: replaces in place, appends a new key
Put(seq, obj) ==
    IF obj.key \in KeysOf(seq)
    THEN [seq EXCEPT ![IndexOf(seq, obj.key)] = obj]
    ELSE Append(seq, obj)

\* the record of a call; failed: a file deletion failed in it or before it
Last(op, k, ret, queried, failed) ==
    [op |-> op, key |-> k, ret |-> ret, queried |-> queried,
     failed |-> (last.failed \/ failed), ev |-> {}]

(***************************************************************************)
(* CacheManager helpers                                                    *)
(***************************************************************************)
\* `entry not in evictions` (manager.py:601, 607): evictions holds
\* (entry, reason) tuples and a CacheEntry never equals a tuple
EntryEqualsPair(x, pair) == FALSE

\* [entry for entry in entries if entry not in evictions]
NotInEvictions(sel, ev) ==
    SelectSeq(sel, LAMBDA x : ~(\E pair \in ev : EntryEqualsPair(x, pair)))

\* the indices of es, in list order, of the objects of a kind
OfKind(es, sel, kind) == SelectSeq(sel, LAMBDA x : KindOf(es[x].key) = kind)

AllIdx(es) == [x \in 1..Len(es) |-> x]

\* CacheManager.get_eviction_for (manager.py:587-610)
\* evictions += get_eviction_for(entries, policy), r being that call's result
Extend(ev, r) == [ev |-> ev \cup r.ev, es |-> r.es]

\* manager.py:605-609: the main policy, after the sub-policies gave r
MainStage(r, now_) ==
    Extend(r.ev, get_eviction_for(r.es, NotInEvictions(AllIdx(r.es), r.ev),
                                  policy, "MainPolicy", now_))

\* manager.py:599-603: the files sub-policy, after the images one gave r
FilesStage(r, now_) ==
    MainStage(Extend(r.ev,
                  get_eviction_for(r.es,
                      OfKind(r.es, NotInEvictions(AllIdx(r.es), r.ev), "file"),
                      policy.files, "FilesPolicy", now_)),
              now_)

ManagerEvictionFor(es, now_) ==
    IF ~policy.enabled THEN [ev |-> {}, es |-> es]
    ELSE FilesStage(get_eviction_for(es, OfKind(es, AllIdx(es), "image"),
                                     policy.oci_images, "OCIImagePolicy", now_),
                    now_)

\* the indices an engine result lists for eviction
Evicted(r) == {p[1] : p \in r.ev}

\* CacheManager.evict on the entries with keys ks (manager.py:548-563);
\* unlink() raises for the files of failed and for a file that is not there
EvictKeys(ents, d, ks, failed) ==
    IF ~policy.enabled THEN [entries |-> ents, disk |-> d]
    ELSE LET gone == {k \in ks : d[k].exists /\ k \notin failed}
         IN  [entries |-> SelectSeq(ents, LAMBDA e : e.key \notin gone),
              disk |-> [k \in DOMAIN d |-> IF k \in gone THEN NoFile ELSE d[k]]]

\* CacheManager.walk (manager.py:449-462): the files that look like entries,
\* in directory order
RECURSIVE WalkFrom(_, _)
WalkFrom(d, r) ==
    IF r > Cardinality(DOMAIN d) THEN << >>
    ELSE LET k == CHOOSE x \in DOMAIN d : KeyRank(x) = r
         IN  (IF d[k].exists /\ d[k].meta THEN <<CacheEntry(k, d[k])>> ELSE << >>)
             \o WalkFrom(d, r + 1)

\* the manager after `if not self.discovered: self.walk()`
Discover(ents, disc, d) ==
    IF disc \/ ~policy.enabled
    THEN [entries |-> ents, discovered |-> disc]
    ELSE [entries |-> WalkFrom(d, 1), discovered |-> TRUE]

\* CacheManager.apply (manager.py:616-627) with engine result r
ApplyOn(r, d, failed) ==
    EvictKeys(r.es, d, {r.es[x].key : x \in Evicted(r)}, failed)

\* CacheManager.apply_candidates (manager.py:638-653) on n entries followed
\* by the candidates, with engine result r over them
ApplyCandidatesOn(r, n, d, failed) ==
    LET evEntries == {r.es[x].key : x \in {y \in Evicted(r) : y <= n}}
        \* del self.candidates[entry.fpath]: a KeyError (absolute fpath) is
        \* passed over
        evCands == {r.es[x].key : x \in {y \in Evicted(r) : y > n /\ ~r.es[y].abs}}
        e == EvictKeys(SubSeq(r.es, 1, n), d, evEntries, failed)
    IN  [entries |-> e.entries, disk |-> e.disk,
         candidates |-> SelectSeq(SubSeq(r.es, n + 1, Len(r.es)),
                                  LAMBDA c : c.key \notin evCands)]

\* the keys of the entries (not candidates) an engine result over
\* n entries followed by candidates lists
EvictedEntryKeys(r, n) == {r.es[x].key : x \in {y \in Evicted(r) : y <= n}}

\* is_outdated_if where a failed digest retrieval counts as outdated
is_outdated_if_error_outdated(e, checked_before, now_, q) ==
    LET cb == IF checked_before = NoCheckAfter THEN e.check_after ELSE checked_before
    IN  IF cb > 0 /\ e.last_checked_on + cb >= now_
        THEN [outdated |-> FALSE, queried |-> FALSE, entry |-> e]
        ELSE IF e.digest = ""
        THEN [outdated |-> TRUE, queried |-> FALSE, entry |-> e]
        ELSE IF q = "error" \/ q = "" \/ q # e.digest
        THEN [outdated |-> TRUE, queried |-> TRUE, entry |-> e]
        ELSE [outdated |-> FALSE, queried |-> TRUE,
              entry |-> [e EXCEPT !.last_checked_on = now_]]

\* is_outdated_if where the check window is not looked at
is_outdated_if_no_window(e, checked_before, now_, q) ==
    IF e.digest = ""
    THEN [outdated |-> TRUE, queried |-> FALSE, entry |-> e]
    ELSE IF q = "error"
    THEN [outdated |-> FALSE, queried |-> TRUE, entry |-> e]
    ELSE IF q = "" \/ q # e.digest
    THEN [outdated |-> TRUE, queried |-> TRUE, entry |-> e]
    ELSE [outdated |-> FALSE, queried |-> TRUE,
          entry |-> [e EXCEPT !.last_checked_on = now_]]

\* CacheEntry.is_outdated_if (manager.py:143-174) with the remote's answer q:
\* whether outdated, whether the remote was queried, and the entry after it
is_outdated_if(e, checked_before, now_, q) ==
    LET cb == IF checked_before = NoCheckAfter THEN e.check_after ELSE checked_before
    IN  IF cb > 0 /\ e.last_checked_on + cb >= now_
        THEN [outdated |-> FALSE, queried |-> FALSE, entry |-> e]
        ELSE IF e.digest = ""
        THEN [outdated |-> TRUE, queried |-> FALSE, entry |-> e]
        ELSE IF q = "error"
        THEN [outdated |-> FALSE, queried |-> TRUE, entry |-> e]
        ELSE IF q = "" \/ q # e.digest
        THEN [outdated |-> TRUE, queried |-> TRUE, entry |-> e]
        ELSE [outdated |-> FALSE, queried |-> TRUE,
              entry |-> [e EXCEPT !.last_checked_on = now_]]

\* CacheEntry.mark_checked on the file's attributes (manager.py:176-179)
MarkChecked(d, e) ==
    IF d[e.key].exists
    THEN [d EXCEPT ![e.key].last_checked_on = e.last_checked_on]
    ELSE d

\* the loop of evict_outdated (manager.py:633-635) over the snapshot snap of
\* the entries; q gives the remote's answer per key, failed the files that
\* cannot be deleted. st.raised: is_outdated_if() read a missing check_after
RECURSIVE OutdatedScan(_, _, _, _, _)
OutdatedScan(snap, st, now_, q, failed) ==
    IF snap = << >> \/ st.raised THEN st
    ELSE LET e == Head(snap) IN
         IF e.check_after = MissingAttr
         THEN [st EXCEPT !.raised = TRUE]
         ELSE LET r == is_outdated_if(e, NoCheckAfter, now_, q[e.key])
                  ents1 == Put(st.entries, r.entry)
                  d1 == IF r.entry # e THEN MarkChecked(st.disk, r.entry) ELSE st.disk
                  ev == IF r.outdated
                        THEN EvictKeys(ents1, d1, {e.key}, failed)
                        ELSE [entries |-> ents1, disk |-> d1]
              IN  OutdatedScan(Tail(snap),
                      [entries |-> ev.entries, disk |-> ev.disk,
                       queried |-> st.queried \cup
                                   (IF r.queried THEN {<<e.key, q[e.key]>>} ELSE {}),
                       outdated |-> st.outdated \cup
                                    (IF r.outdated THEN {e.key} ELSE {}),
                       raised |-> FALSE],
                      now_, q, failed)

EvictOutdatedOn(ents, d, now_, q, failed) ==
    OutdatedScan(ents, [entries |-> ents, disk |-> d, queried |-> {},
                        outdated |-> {}, raised |-> FALSE], now_, q, failed)

(***************************************************************************)
(* Operations of the CacheManager                                          *)
(***************************************************************************)
\* CacheManager.walk()
Walk ==
    /\ policy.enabled
    /\ entries' = WalkFrom(disk, 1)
    /\ discovered' = TRUE
    /\ last' = Last("walk", "-", "none", {}, FALSE)
    /\ UNCHANGED <<policy, now, disk, candidates, applied, considered, declared, screened>>

\* CacheManager.dry_apply() as print(with_evictions=True) reaches it, after
\* walking when needed (manager.py:612-614, 655-682)
DryApply ==
    LET w == Discover(entries, discovered, disk)
        r == ManagerEvictionFor(w.entries, now)
    IN  /\ entries' = r.es
        /\ discovered' = w.discovered
        /\ last' = Last("dry_apply", "-", "none", {}, FALSE)
        /\ UNCHANGED <<policy, now, disk, candidates, applied, considered, declared, screened>>

\* the policy node a call of get_eviction_for is made with
NodeAt(level) ==
    CASE level = "FilesPolicy" -> policy.files
      [] level = "OCIImagePolicy" -> policy.oci_images
      [] OTHER -> policy

\* the manager's objects become those a call of get_eviction_for left
EngineCallTo(level, r, n) ==
    /\ entries' = SubSeq(r.es, 1, n)
    /\ candidates' = SubSeq(r.es, n + 1, Len(r.es))
    /\ last' = [Last("get_eviction_for", level, "none", {}, FALSE)
                  EXCEPT !.ev = {r.es[x].key : x \in Evicted(r)}]

\* get_eviction_for(entries, policy) called once with the entries and the
\* candidates, none of which an earlier call has processed
EngineCall(level) ==
    /\ last.op = "init"
    /\ EngineCallTo(level,
                    get_eviction_for(entries \o candidates,
                                     AllIdx(entries \o candidates),
                                     NodeAt(level), level, now),
                    Len(entries))
    /\ UNCHANGED <<policy, now, disk, discovered, applied, considered,
                   declared, screened>>

\* CacheManager.apply()
Apply ==
    /\ policy.enabled
    /\ LET r == ManagerEvictionFor(entries, now) IN
       \E failed \in SUBSET {r.es[x].key : x \in Evicted(r)} :
          LET a == ApplyOn(r, disk, failed)
          IN  /\ entries' = a.entries
              /\ disk' = a.disk
              /\ last' = Last("apply", "-", "none", {}, failed # {})
    /\ applied' = TRUE
    /\ UNCHANGED <<policy, now, candidates, discovered, considered, declared, screened>>

\* the entries whose is_outdated_if() goes to the remote
WouldQuery(ents, now_) ==
    {ents[i].key : i \in {j \in 1..Len(ents) :
        is_outdated_if(ents[j], NoCheckAfter, now_, "error").queried}}

\* CacheManager.evict_outdated()
EvictOutdated ==
    /\ entries # << >>
    /\ \E qs \in [WouldQuery(entries, now) -> QueryOutcomes] :
        LET q == [k \in Keys |-> IF k \in DOMAIN qs THEN qs[k] ELSE "error"]
            r0 == EvictOutdatedOn(entries, disk, now, q, {})
        IN  \E failed \in SUBSET r0.outdated :
               LET r == EvictOutdatedOn(entries, disk, now, q, failed)
               IN  /\ entries' = r.entries
                   /\ disk' = r.disk
                   /\ last' = Last("evict_outdated", "-",
                                   IF r.raised THEN "raised" ELSE "none",
                                   r.queried, failed # {})
    /\ UNCHANGED <<policy, now, candidates, discovered, applied, considered, declared, screened>>

\* CacheManager.in_cache(item, check_outdacy=chk)
InCache(k, chk) ==
    LET w == Discover(entries, discovered, disk) IN
    /\ discovered' = w.discovered
    /\ IF k \notin KeysOf(w.entries)
       THEN /\ entries' = w.entries
            /\ disk' = disk
            /\ last' = Last("in_cache", k, "false", {}, FALSE)
       ELSE IF ~chk
       THEN /\ entries' = w.entries
            /\ disk' = disk
            /\ last' = Last("in_cache", k, "true", {}, FALSE)
       ELSE LET e == Get(w.entries, k) IN
            \E q \in (IF e.digest = "" THEN {"error"} ELSE QueryOutcomes) :
            \E failed \in (IF is_outdated_if(e, 0, now, q).outdated
                           THEN SUBSET {k} ELSE {{}}) :
            LET \* is_outdated: is_outdated_if(checked_before=0)
                r == is_outdated_if(e, 0, now, q)
                ents1 == Put(w.entries, r.entry)
                d1 == IF r.entry # e THEN MarkChecked(disk, r.entry) ELSE disk
                ev == IF r.outdated
                      THEN EvictKeys(ents1, d1, {k}, failed)
                      ELSE [entries |-> ents1, disk |-> d1]
            IN  /\ entries' = ev.entries
                /\ disk' = ev.disk
                /\ last' = Last("in_cache", k,
                                IF r.outdated THEN "false" ELSE "true",
                                IF r.queried THEN {<<k, q>>} ELSE {}, failed # {})
    /\ UNCHANGED <<policy, now, candidates, applied, considered, declared, screened>>

\* sizes a source can be declared or probed with when it becomes a
\* candidate: the artifact's size, or unknown
DeclaredSizes(k) == {SizeOf(k), UnknownSize}

\* digests digest_for_item can return for a candidate
CandidateDigests == {"d1"}

\* CacheManager.add_candidate(item) as CheckURLs.run calls it: right after
\* in_cache(item, check_outdacy=True) returned false (check_inputs.py:206-238).
\* dq is the outcome of digest_for_item in CacheCandidate.__init__
AddCandidate(k, size, dq) ==
    /\ last.op = "in_cache" /\ last.key = k /\ last.ret = "false"
    /\ policy.enabled
    /\ LET r == ManagerEvictionFor(entries, now) IN
       \E failed \in SUBSET (IF applied THEN {}
                             ELSE {r.es[x].key : x \in Evicted(r)}) :
          LET a == IF applied THEN [entries |-> entries, disk |-> disk]
                   ELSE ApplyOn(r, disk, failed)
          IN  /\ entries' = a.entries
              /\ disk' = a.disk
              /\ last' = Last("add_candidate", k,
                              IF dq = "error" THEN "raised" ELSE "none",
                              {<<k, dq>>}, failed # {})
    /\ applied' = TRUE
    /\ candidates' = IF dq = "error" THEN candidates
                     ELSE Put(candidates, CacheCandidate(k, size, dq, RefDate))
    /\ screened' = IF dq = "error" THEN screened ELSE screened \ {k}
    /\ UNCHANGED <<policy, now, discovered, considered, declared>>

\* CacheManager.apply_candidates()
ApplyCandidates ==
    /\ LET r == ManagerEvictionFor(entries \o candidates, now)
           n == Len(entries)
       IN  \E failed \in SUBSET EvictedEntryKeys(r, n) :
              LET a == ApplyCandidatesOn(r, n, disk, failed)
              IN  /\ entries' = a.entries
                  /\ candidates' = a.candidates
                  /\ disk' = a.disk
                  /\ screened' = KeysOf(a.candidates)
                  /\ last' = Last("apply_candidates", "-", "none", {}, failed # {})
    /\ considered' = TRUE
    /\ UNCHANGED <<policy, now, discovered, applied, declared>>

\* the files whose deletion can fail in the apply_candidates() that
\* should_cache runs when candidates were not considered yet
ScreeningDeletes ==
    IF considered \/ ~policy.enabled THEN {}
    ELSE EvictedEntryKeys(ManagerEvictionFor(entries \o candidates, now),
                          Len(entries))

\* should_cache(item) once apply_candidates ran when it had to, a being
\* the manager it left
ShouldCacheAfter(k, a, scr) ==
    [entries |-> a.entries, candidates |-> a.candidates, disk |-> a.disk,
     considered |-> TRUE, screened |-> scr,
     ret |-> (k \in KeysOf(a.candidates))]

\* the manager after should_cache(item) and its answer (manager.py:576-585)
ShouldCacheOn(k, failed) ==
    IF ~policy.enabled
    THEN [entries |-> entries, candidates |-> candidates, disk |-> disk,
          considered |-> considered, screened |-> screened, ret |-> FALSE]
    ELSE IF considered
    THEN ShouldCacheAfter(k, [entries |-> entries, candidates |-> candidates,
                              disk |-> disk], screened)
    ELSE ShouldCacheAfter(k,
             ApplyCandidatesOn(ManagerEvictionFor(entries \o candidates, now),
                               Len(entries), disk, failed),
             KeysOf(candidates))

\* the manager becomes r, the result of should_cache(k)
ShouldCacheTo(k, r, fails) ==
    /\ entries' = r.entries
    /\ candidates' = r.candidates
    /\ disk' = r.disk
    /\ considered' = r.considered
    /\ screened' = r.screened \cap KeysOf(r.candidates)
    /\ last' = Last("should_cache", k, IF r.ret THEN "true" ELSE "false",
                    {}, fails)

\* CacheManager.should_cache(item)
ShouldCache(k) ==
    /\ \E failed \in SUBSET ScreeningDeletes :
          ShouldCacheTo(k, ShouldCacheOn(k, failed), failed # {})
    /\ UNCHANGED <<policy, now, discovered, applied, declared>>

\* what the steps of introduce can end in: all fine; digest_for_item raises;
\* copy_file raises leaving nothing new or a partial file; writing the
\* attributes raises and the unlink of the copy works or fails
IntroduceOutcomes ==
    {"ok", "digest_raises", "copy_fails", "copy_fails_partial",
     "attrs_fail", "attrs_fail_unlink_fails"}

\* the file at <root>/<CacheKey> after introduce ended in out
IntroducedFile(d, k, entry, out, dq) ==
    CASE out \in {"digest_raises", "copy_fails"} -> d[k]
      [] out = "copy_fails_partial" ->
            IF d[k].exists THEN [d[k] EXCEPT !.size = 0]
            ELSE File(0, FALSE, 0, 0, 0, 0, "")
      [] out = "attrs_fail" -> NoFile
      [] out = "attrs_fail_unlink_fails" -> File(SizeOf(k), FALSE, 0, 0, 0, 0, "")
      [] OTHER -> File(SizeOf(k), TRUE, entry.added_on, entry.last_checked_on,
                       entry.last_used_on, 1, dq)

\* introduce past `if not self.should_cache(item)`, sc being the manager
\* should_cache left and entry the candidate with its path made absolute
IntroduceEntry(k, sc, entry, out, dq, fails) ==
    /\ disk' = [sc.disk EXCEPT ![k] = IntroducedFile(sc.disk, k, entry, out, dq)]
    /\ IF out = "ok"
       THEN /\ entries' = Put(sc.entries, entry)
            /\ candidates' = Without(sc.candidates, k)
            /\ screened' = (sc.screened \cap KeysOf(sc.candidates)) \ {k}
            /\ last' = Last("introduce", k, "true", {<<k, dq>>}, fails)
       ELSE /\ entries' = sc.entries
            /\ candidates' = Put(sc.candidates, entry)
            /\ screened' = sc.screened \cap KeysOf(sc.candidates)
            /\ last' = Last("introduce", k,
                            IF out = "digest_raises" THEN "raised" ELSE "false",
                            {<<k, IF out = "digest_raises" THEN "error" ELSE dq>>},
                            fails)

\* the manager becomes what introduce(k, src) makes of sc, the result of
\* its should_cache(k)
IntroduceTo(k, sc, out, dq, fails) ==
    /\ considered' = sc.considered
    /\ IF ~sc.ret
       THEN /\ entries' = sc.entries
            /\ candidates' = sc.candidates
            /\ disk' = sc.disk
            /\ screened' = sc.screened \cap KeysOf(sc.candidates)
            /\ last' = Last("introduce", k, "false", {}, fails)
       ELSE \* entry.fpath = self.root.joinpath(entry.fpath)
            IntroduceEntry(k, sc, [Get(sc.candidates, k) EXCEPT !.abs = TRUE],
                           out, dq, fails)

\* CacheManager.introduce(item, src_path) (manager.py:506-546); the source
\* file holds the artifact, SizeOf(k) bytes
Introduce(k, out, dq) ==
    /\ \E failed \in SUBSET ScreeningDeletes :
          IntroduceTo(k, ShouldCacheOn(k, failed), out, dq, failed # {})
    /\ UNCHANGED <<policy, now, discovered, applied, declared>>

\* CacheManager.evict(entry, reason) on an entry of the cache
Evict(k) ==
    /\ k \in KeysOf(entries)
    /\ \E failed \in SUBSET {k} :
        LET r == EvictKeys(entries, disk, {k}, failed)
        IN  /\ entries' = r.entries
            /\ disk' = r.disk
            /\ last' = Last("evict", k,
                            IF k \in KeysOf(r.entries) THEN "false" ELSE "true",
                            {}, failed # {})
    /\ UNCHANGED <<policy, now, candidates, discovered, applied, considered, declared, screened>>

\* CacheEntry.mark_usage(1) on the entry of item k: cache[item] += 1
MarkUsage(k) ==
    /\ k \in KeysOf(entries)
    /\ Get(entries, k).nb_used < MaxUsed
    /\ disk[k].exists
    /\ LET e1 == [Get(entries, k) EXCEPT !.nb_used = @ + 1, !.last_used_on = now]
       IN  /\ entries' = Put(entries, e1)
           /\ disk' = [disk EXCEPT ![k].nb_used = e1.nb_used,
                                   ![k].last_used_on = now]
    /\ last' = Last("mark_usage", k, "none", {}, FALSE)
    /\ UNCHANGED <<policy, now, candidates, discovered, applied, considered, declared, screened>>

\* time passes
Tick ==
    /\ now < MaxTime
    /\ now' = now + 1
    /\ last' = Last("tick", "-", "none", {}, FALSE)
    /\ UNCHANGED <<policy, disk, entries, candidates, discovered, applied,
                   considered, declared, screened>>


(***************************************************************************)
(* The download steps as consumers of the cache (steps/base.py,            *)
(* steps/contents.py, steps/oci_images.py)                                 *)
(***************************************************************************)
\* the manager as a value
Manager ==
    [entries |-> entries, candidates |-> candidates, disk |-> disk,
     considered |-> considered, screened |-> screened, ret |-> FALSE]

\* cache[item] += 1 on manager r: CacheEntry.mark_usage(1)
\* (manager.py:181-188)
mark_usage(r, k, now_) ==
    [r EXCEPT !.entries = Put(@, [Get(@, k) EXCEPT !.nb_used = @ + 1,
                                                   !.last_used_on = now_]),
              !.disk = [@ EXCEPT ![k].nb_used = Get(r.entries, k).nb_used + 1,
                                 ![k].last_used_on = now_]]

\* the manager after introduce(k, src) past its should_cache, which left
\* sc and answered true; entry is the candidate with its path made absolute
\* (manager.py:512-546)
IntroducedOn(k, sc, entry, out, dq) ==
    IF out = "ok"
    THEN [sc EXCEPT !.entries = Put(@, entry),
                    !.candidates = Without(@, k),
                    !.disk = [@ EXCEPT ![k] = IntroducedFile(sc.disk, k, entry, out, dq)],
                    !.screened = (@ \cap KeysOf(sc.candidates)) \ {k},
                    !.ret = TRUE]
    ELSE [sc EXCEPT !.candidates = Put(@, entry),
                    !.disk = [@ EXCEPT ![k] = IntroducedFile(sc.disk, k, entry, out, dq)],
                    !.ret = FALSE]

\* `if cache.should_cache(item): cache.introduce(item, path)` on the manager
\* sc the first should_cache left (base.py:51-56, contents.py:120-121,
\* oci_images.py:64-69)
CacheIfAllowed(k, sc, out, dq) ==
    IF ~sc.ret THEN sc
    ELSE IntroducedOn(k, sc, [Get(sc.candidates, k) EXCEPT !.abs = TRUE], out, dq)

\* how a step that handles one artifact can go: all fine, the download
\* fails, the copy from the cache fails, the extraction or expansion fails
DownloadOutcomes == {"ok", "download_fails", "copy_fails", "expand_fails"}

\* how the introduce of a download step can end: all fine, copy_file
\* raises, digest_for_item raises
StepIntroduceOutcomes == {"ok", "copy_fails", "digest_raises"}

\* what a step leaves: the manager m and how the artifact was obtained
\* ("cache": copied out of the cache, "fetched": downloaded, "failed": the
\* step returns 1, "raised": an exception leaves the step)
Obtained(m, how) == [m |-> m, how |-> how]

\* digest_for_item raised inside introduce
IntroduceRaised(sc, iout) == sc.ret /\ iout = "digest_raises"

\* DownloadImage.run_uncompressed (base.py:28-79), the base file being
\* remote
run_uncompressed(k, cur, sc, out, iout, dq) ==
    IF k \notin KeysOf(cur.entries)
    THEN IF out = "download_fails" THEN Obtained(cur, "failed")
         ELSE Obtained(CacheIfAllowed(k, sc, iout, dq),
                       IF IntroduceRaised(sc, iout) THEN "raised" ELSE "fetched")
    ELSE IF out = "copy_fails" THEN Obtained(cur, "failed")
         ELSE Obtained(mark_usage(cur, k, now), "cache")

\* DownloadImage.extract (base.py:120-153) of a file obtained as how,
\* r being the manager at that point
extract(k, r, out, how) ==
    IF out = "expand_fails" THEN Obtained(r, "failed")
    ELSE Obtained(IF k \in KeysOf(r.entries) THEN mark_usage(r, k, now) ELSE r,
                  how)

\* DownloadImage.run_compressed (base.py:81-118), the base file being remote
run_compressed(k, cur, sc, out, iout, dq) ==
    IF k \notin KeysOf(cur.entries)
    THEN IF out = "download_fails" THEN Obtained(cur, "failed")
         ELSE IF IntroduceRaised(sc, iout)
         THEN Obtained(CacheIfAllowed(k, sc, iout, dq), "raised")
         ELSE extract(k, CacheIfAllowed(k, sc, iout, dq), out, "fetched")
    ELSE extract(k, cur, out, "cache")

\* download_file_worker (contents.py:95-148), direct or expanded: both
\* branches use the cache alike
download_file_worker(k, cur, sc, out, iout, dq) ==
    IF k \in KeysOf(cur.entries)
    THEN IF out = "copy_fails" THEN Obtained(cur, "raised")
         ELSE Obtained(mark_usage(cur, k, now), "cache")
    ELSE IF out = "download_fails" THEN Obtained(cur, "raised")
         ELSE Obtained(CacheIfAllowed(k, sc, iout, dq),
                       IF IntroduceRaised(sc, iout) THEN "raised" ELSE "fetched")

\* one image of the loop of DownloadingOCIImages.run (oci_images.py:37-69)
oci_image(k, cur, sc, out, iout, dq) ==
    IF k \in KeysOf(cur.entries)
    THEN IF out = "copy_fails" THEN Obtained(cur, "failed")
         ELSE Obtained(mark_usage(cur, k, now), "cache")
    ELSE IF out = "download_fails" THEN Obtained(cur, "failed")
         ELSE Obtained(CacheIfAllowed(k, sc, iout, dq),
                       IF IntroduceRaised(sc, iout) THEN "raised" ELSE "fetched")

\* a download step runs after CheckURLs: the cache was walked and the item
\* is an entry or was made a candidate; nb_used stays within the model
Downloadable(k) ==
    /\ discovered
    /\ k \in KeysOf(entries) \cup KeysOf(candidates)
    /\ k \in KeysOf(entries) => Get(entries, k).nb_used < MaxUsed

\* the manager becomes what the step left
DownloadTo(op, k, r, fails) ==
    /\ entries' = r.m.entries
    /\ candidates' = r.m.candidates
    /\ disk' = r.m.disk
    /\ considered' = r.m.considered
    /\ screened' = r.m.screened \cap KeysOf(r.m.candidates)
    /\ last' = Last(op, k, r.how, {}, fails)
    /\ UNCHANGED <<policy, now, discovered, applied, declared>>

\* DownloadImage.run (base.py:21-26) on base file k
DownloadImage(k, compressed, out, iout, dq) ==
    /\ Downloadable(k)
    /\ \E failed \in SUBSET ScreeningDeletes :
          DownloadTo("DownloadImage", k,
                     IF compressed
                     THEN run_compressed(k, Manager, ShouldCacheOn(k, failed),
                                         out, iout, dq)
                     ELSE run_uncompressed(k, Manager, ShouldCacheOn(k, failed),
                                           out, iout, dq),
                     failed # {})

\* DownloadingContent.run on remote file k, in the driver thread or in a
\* worker of FilesMultiDownloader (contents.py:326-336, 207-220)
DownloadFile(k, out, iout, dq) ==
    /\ Downloadable(k)
    /\ \E failed \in SUBSET ScreeningDeletes :
          DownloadTo("download_file_worker", k,
                     download_file_worker(k, Manager, ShouldCacheOn(k, failed),
                                          out, iout, dq),
                     failed # {})

\* DownloadingOCIImages.run on image k
DownloadOCIImage(k, out, iout, dq) ==
    /\ Downloadable(k)
    /\ \E failed \in SUBSET ScreeningDeletes :
          DownloadTo("DownloadingOCIImages", k,
                     oci_image(k, Manager, ShouldCacheOn(k, failed),
                               out, iout, dq),
                     failed # {})

(***************************************************************************)
(* Step machine (steps/machine.py), driver (creator.py, entrypoint.py)     *)
(* and the image resources the steps hold (utils/image.py)                 *)
(***************************************************************************)
\* StepMachine.steps as the class defines it (machine.py:33-56)
AllSteps ==
    <<"VirtualInitStep", "CheckRequirements", "CheckInputs", "CheckCache",
      "PrintingCache", "ApplyCachePolicy", "CheckURLs", "ComputeSizes",
      "DownloadImage", "ResizingImage", "MountingDataPart",
      "DownloadingOCIImages", "ProcessingLocalContent", "DownloadingContent",
      "UnmountingDataPart", "MountingBootPart", "WritingOffspotConfig",
      "UnmountingBootPart", "DetachingImage", "ShrinkingImage",
      "GivingFeedback">>

\* the steps that fetch content or build the image
BuildSteps == {AllSteps[i] : i \in 9..Len(AllSteps)}

\* [...].index(step): the 0-based position of a step class by name
StepIndex(list, step) == (CHOOSE i \in 1..Len(list) : list[i] = step) - 1

\* halt_after keeping one step more: cls.steps[: index + 2]
halt_after_one_more(list, step) == SubSeq(list, 1, StepIndex(list, step) + 2)

\* StepMachine.halt_after: cls.steps[: index + 1]
halt_after(list, step) == SubSeq(list, 1, StepIndex(list, step) + 1)

\* StepMachine.remove_step: cls.steps.remove(stepcls)
remove_step(list, step) == SelectSeq(list, LAMBDA s : s # step)

\* self.steps[index - 1]: the machine starts at the virtual step
StepAt_from_virtual(list, index) == list[index]

\* self.steps[index]
StepAt(list, index) == list[index + 1]

\* ImageCreator.run before the machine is built (creator.py:47-52)
WithoutPolicyStep(opts, list) ==
    IF ~opts.cache_dir THEN remove_step(list, "ApplyCachePolicy") ELSE list

\* PrintingCache removed whatever show_cache says
WithoutPrintStep_always(opts, list) == remove_step(list, "PrintingCache")

WithoutPrintStep(opts, list) ==
    IF ~opts.show_cache THEN remove_step(list, "PrintingCache") ELSE list

Truncated(opts, list) ==
    IF opts.check_only THEN halt_after(list, "ComputeSizes") ELSE list

Pipeline(opts, list) ==
    Truncated(opts, WithoutPrintStep(opts, WithoutPolicyStep(opts, list)))

\* payload without an "image" key
NoImage ==
    [set |-> FALSE, loop_dev |-> FALSE, p1_mounted_on |-> FALSE,
     p3_mounted_on |-> FALSE]

\* Image.__init__: nothing attached, nothing mounted
NewImage ==
    [set |-> TRUE, loop_dev |-> FALSE, p1_mounted_on |-> FALSE,
     p3_mounted_on |-> FALSE]

\* Image.is_mounted
is_mounted(img) == img.p3_mounted_on \/ img.p1_mounted_on

(***************************************************************************)
(* Image operations. st holds the image and the commands issued so far,    *)
(* each with its target and whether it succeeded; ok tells which external  *)
(* commands succeed. raised tells whether the operation raised.            *)
(***************************************************************************)
Issued(st, cmd) == [st EXCEPT !.cmds = Append(@, cmd)]

\* Image.unmount_part: no command when the partition is not mounted; the
\* mount point is forgotten only when umount succeeds, else OSError
unmount_part(st, part, ok) ==
    IF ~st.image[part] THEN [st EXCEPT !.raised = FALSE]
    ELSE IF ok.umount
         THEN [Issued(st, <<"umount", part, TRUE>>) EXCEPT
                  !.image[part] = FALSE, !.raised = FALSE]
         ELSE [Issued(st, <<"umount", part, FALSE>>) EXCEPT !.raised = TRUE]

\* Image.unmount_all: p1 then p3, exceptions swallowed
unmount_all(st, ok) ==
    [unmount_part(unmount_part(st, "p1_mounted_on", ok), "p3_mounted_on", ok)
        EXCEPT !.raised = FALSE]

\* the detach command of Image.detach on an image with nothing to unmount
\* left: detach_device raises when losetup fails (check=True)
DetachLoop(st, ok) ==
    IF ~st.image.loop_dev THEN [st EXCEPT !.raised = FALSE, !.ret = FALSE]
    ELSE IF ok.detach
         THEN [Issued(st, <<"detach", "loop_dev", TRUE>>) EXCEPT
                  !.image.loop_dev = FALSE, !.raised = FALSE, !.ret = TRUE]
         ELSE [Issued(st, <<"detach", "loop_dev", FALSE>>) EXCEPT !.raised = TRUE]

\* Image.detach
detach(st, ok) ==
    IF is_mounted(st.image) THEN DetachLoop(unmount_all(st, ok), ok)
    ELSE DetachLoop(st, ok)

\* ResizingImage.cleanup left empty like Step.cleanup
StepCleanup_no_detach(step, st, ok) ==
    CASE step = "MountingDataPart" /\ st.image.set ->
            unmount_part(st, "p3_mounted_on", ok)
      [] step = "MountingBootPart" /\ st.image.set ->
            unmount_part(st, "p1_mounted_on", ok)
      [] OTHER -> [st EXCEPT !.raised = FALSE]

\* Step.cleanup of the step class named step (steps/image.py:64-66, 83-85,
\* 141-143; the other classes inherit the empty Step.cleanup)
StepCleanup(step, st, ok) ==
    CASE step = "ResizingImage" /\ st.image.set -> detach(st, ok)
      [] step = "MountingDataPart" /\ st.image.set ->
            unmount_part(st, "p3_mounted_on", ok)
      [] step = "MountingBootPart" /\ st.image.set ->
            unmount_part(st, "p1_mounted_on", ok)
      [] OTHER -> [st EXCEPT !.raised = FALSE]

\* one iteration of the loop of StepMachine.halt: the cleanup of the step at
\* index, its exception caught
Cleaned(index, st) ==
    [st EXCEPT !.cleaned = Append(@, [index |-> index, raised |-> st.raised]),
               !.raised = FALSE]

\* the loop of halt without its try: the first cleanup that raises ends it
RECURSIVE CleanupWalk_uncaught(_, _, _, _)
CleanupWalk_uncaught(list, index, st, ok) ==
    IF index < 1 THEN st
    ELSE IF StepCleanup(StepAt(list, index), st, ok).raised
    THEN Cleaned(index, StepCleanup(StepAt(list, index), st, ok))
    ELSE CleanupWalk_uncaught(list, index - 1,
                              Cleaned(index, StepCleanup(StepAt(list, index), st, ok)),
                              ok)

\* for index in range(self._current, 0, -1)
RECURSIVE CleanupWalk(_, _, _, _)
CleanupWalk(list, index, st, ok) ==
    IF index < 1 THEN st
    ELSE CleanupWalk(list, index - 1,
                     Cleaned(index, StepCleanup(StepAt(list, index), st, ok)),
                     ok)

\* the test of halt without `not keep_failed`
RemovesOutput_despite_keep_failed(opts, succ, outp) == ~succ /\ outp

\* whether StepMachine.halt unlinks the output file (machine.py:120-125)
RemovesOutput(opts, succ, outp) ==
    ~succ /\ ~opts.keep_failed /\ outp

\* the state a halt starts from
HaltState(img) ==
    [image |-> img, cmds |-> << >>, cleaned |-> << >>, raised |-> FALSE,
     ret |-> FALSE]

(***************************************************************************)
(* Step.run of each step class: its outcomes and what it leaves            *)
(***************************************************************************)
\* how the run of a step can end: "ok", "fail" (a nonzero code), "raise" (an
\* exception leaves run); "partial": DownloadImage fails with the target
\* partly written; "attached": ResizingImage fails with a loop device set
StepOutcomes(step) ==
    CASE step \in {"PrintingCache", "ApplyCachePolicy", "GivingFeedback"} ->
            {"ok"}
      [] step \in {"CheckInputs", "CheckCache", "DownloadingContent"} ->
            {"ok", "fail", "raise"}
      [] step = "DownloadImage" -> {"ok", "fail", "partial"}
      [] step = "ResizingImage" -> {"ok", "fail", "attached", "raise"}
      [] step = "DetachingImage" -> {"ok", "raise"}
      [] OTHER -> {"ok", "fail"}

\* the nonzero code a step returns
FailCode(step) ==
    CASE step = "CheckRequirements" -> "2"
      [] step = "CheckInputs" -> "3"
      [] step = "CheckURLs" -> "4"
      [] OTHER -> "1"

\* CheckInputs.run on the output path (check_inputs.py:127-191): without
\* check_only an existing output is removed with overwrite and refused
\* without; the location test leaves no file. With check_only an existing
\* output is only touched.
CheckInputsRun(opts, outp, out) ==
    IF out # "ok" THEN [code |-> IF out = "raise" THEN "raise" ELSE "3",
                        output |-> outp]
    ELSE IF ~opts.check_only /\ outp /\ ~opts.overwrite
         THEN [code |-> "3", output |-> outp]
         ELSE [code |-> "0", output |-> IF opts.check_only THEN outp ELSE FALSE]

\* ResizingImage.run (steps/image.py:15-62): Image() raises outside the try
\* when the file cannot be read
ResizingImageRun(img, outp, out) ==
    IF out = "raise" \/ ~outp THEN [code |-> "raise", image |-> img]
    ELSE IF out = "fail" THEN [code |-> "1", image |-> NewImage]
    ELSE IF out = "attached"
         THEN [code |-> "1", image |-> [NewImage EXCEPT !.loop_dev = TRUE]]
         ELSE [code |-> "0", image |-> [NewImage EXCEPT !.loop_dev = TRUE]]

\* MountingDataPart.run / MountingBootPart.run
MountRun(img, part, out) ==
    IF out = "ok" THEN [code |-> "0", image |-> [img EXCEPT ![part] = TRUE]]
    ELSE [code |-> "1", image |-> img]

\* UnmountingDataPart.run / UnmountingBootPart.run
UnmountRun(img, part, out) ==
    IF unmount_part(HaltState(img), part, [umount |-> out = "ok"]).raised
    THEN [code |-> "1", image |-> img]
    ELSE [code |-> "0",
          image |-> unmount_part(HaltState(img), part,
                                 [umount |-> out = "ok"]).image]

\* DetachingImage.run: 1 when detach() is False, the exception of
\* detach_device leaves run
DetachRun(img, out) ==
    IF detach(HaltState(img), [umount |-> TRUE, detach |-> out = "ok"]).raised
    THEN [code |-> "raise", image |-> img]
    ELSE [code |-> IF detach(HaltState(img),
                             [umount |-> TRUE, detach |-> out = "ok"]).ret
                   THEN "0" ELSE "1",
          image |-> detach(HaltState(img),
                           [umount |-> TRUE, detach |-> out = "ok"]).image]

\* the code of the steps that touch neither the image object nor the output
PlainCode(step, out) ==
    CASE out = "ok" -> "0"
      [] out = "raise" -> "raise"
      [] OTHER -> FailCode(step)

\* step.run(payload): the code ("raise": an exception) and the payload and
\* output file it leaves
StepRun(step, opts, img, outp, out) ==
    CASE step = "CheckInputs" ->
            [code |-> CheckInputsRun(opts, outp, out).code, image |-> img,
             output |-> CheckInputsRun(opts, outp, out).output,
             succeeded |-> FALSE]
      [] step = "DownloadImage" ->
            [code |-> IF out = "ok" THEN "0" ELSE "1", image |-> img,
             output |-> IF out = "fail" THEN outp ELSE TRUE,
             succeeded |-> FALSE]
      [] step = "ResizingImage" ->
            [code |-> ResizingImageRun(img, outp, out).code,
             image |-> ResizingImageRun(img, outp, out).image,
             output |-> outp, succeeded |-> FALSE]
      [] step = "MountingDataPart" ->
            [code |-> MountRun(img, "p3_mounted_on", out).code,
             image |-> MountRun(img, "p3_mounted_on", out).image,
             output |-> outp, succeeded |-> FALSE]
      [] step = "MountingBootPart" ->
            [code |-> MountRun(img, "p1_mounted_on", out).code,
             image |-> MountRun(img, "p1_mounted_on", out).image,
             output |-> outp, succeeded |-> FALSE]
      [] step = "UnmountingDataPart" ->
            [code |-> UnmountRun(img, "p3_mounted_on", out).code,
             image |-> UnmountRun(img, "p3_mounted_on", out).image,
             output |-> outp, succeeded |-> FALSE]
      [] step = "UnmountingBootPart" ->
            [code |-> UnmountRun(img, "p1_mounted_on", out).code,
             image |-> UnmountRun(img, "p1_mounted_on", out).image,
             output |-> outp, succeeded |-> FALSE]
      [] step = "DetachingImage" ->
            [code |-> DetachRun(img, out).code,
             image |-> DetachRun(img, out).image,
             output |-> outp, succeeded |-> FALSE]
      [] step = "GivingFeedback" ->
            [code |-> "0", image |-> img, output |-> outp, succeeded |-> TRUE]
      [] OTHER ->
            [code |-> PlainCode(step, out), image |-> img, output |-> outp,
             succeeded |-> FALSE]

(***************************************************************************)
(* Actions of the driver                                                   *)
(***************************************************************************)
\* ImageCreator.run up to the construction of the machine (creator.py:46-56)
StartRun ==
    /\ pc = "new"
    /\ steps' = Pipeline(options, steps)
    /\ built' = TRUE
    /\ current' = 0
    /\ succeeded' = FALSE
    /\ pc' = "running"
    /\ UNCHANGED <<options, image, output, result, ran, halts, haltRaised,
                   cleaned, cmds>>
    /\ UNCHANGED <<cacheVars, stepVars, ariaVars>>

\* what one turn of the loop of ImageCreator.run leaves, from the result r
\* of the step's run
RunStepTo(step, r) ==
    /\ current' = current + 1
    /\ ran' = Append(ran, step)
    /\ image' = r.image
    /\ output' = r.output
    /\ succeeded' = (succeeded \/ r.succeeded)
    /\ pc' = CASE r.code = "0" -> "running"
               [] r.code = "raise" -> "raised"
               [] OTHER -> "returned"
    /\ result' = IF r.code \in {"0", "raise"} THEN result ELSE r.code

\* one turn of the loop: StepMachine.__next__ then step.run
\* (machine.py:86-100, creator.py:57-63)
RunStep(out) ==
    /\ pc = "running"
    /\ current + 1 < Len(steps)
    /\ out \in StepOutcomes(StepAt(steps, current + 1))
    /\ RunStepTo(StepAt(steps, current + 1),
                 StepRun(StepAt(steps, current + 1), options, image, output,
                         out))
    /\ UNCHANGED <<options, steps, built, halts, haltRaised, cleaned, cmds>>
    /\ UNCHANGED <<cacheVars, stepVars, ariaVars>>

\* StopIteration: the loop ends and run returns None
EndOfSteps ==
    /\ pc = "running"
    /\ ~(current + 1 < Len(steps))
    /\ pc' = "returned"
    /\ result' = "None"
    /\ UNCHANGED <<options, steps, built, current, succeeded, image, output,
                   ran, halts, haltRaised, cleaned, cmds>>
    /\ UNCHANGED <<cacheVars, stepVars, ariaVars>>

\* the interpreter is made to exit (KeyboardInterrupt, SystemExit) while
\* run is in progress: main's except branch does not catch it
Interrupt ==
    /\ pc \in {"new", "running"}
    /\ pc' = "returned"
    /\ result' = "interrupted"
    /\ UNCHANGED <<options, steps, built, current, succeeded, image, output,
                   ran, halts, haltRaised, cleaned, cmds>>
    /\ UNCHANGED <<cacheVars, stepVars, ariaVars>>

\* what StepMachine.halt leaves: h is the state after its cleanup loop
MachineHaltTo(h, ok) ==
    /\ image' = h.image
    /\ cleaned' = h.cleaned
    /\ cmds' = cmds \o (IF RemovesOutput(options, succeeded, output)
                        THEN Append(h.cmds, <<"unlink", "output_path", ok.unlink>>)
                        ELSE h.cmds)
    /\ output' = IF RemovesOutput(options, succeeded, output)
                 THEN ~ok.unlink ELSE output

\* ImageCreator.halt (creator.py:65-75): self.machine is an AttributeError
\* before run has built it
halt(ok) ==
    /\ halts' = halts + 1
    /\ IF ~built
       THEN /\ haltRaised' = TRUE
            /\ cleaned' = << >>
            /\ UNCHANGED <<image, output, cmds>>
       ELSE /\ MachineHaltTo(CleanupWalk(steps, current, HaltState(image), ok),
                             ok)
            /\ UNCHANGED haltRaised
    /\ UNCHANGED <<options, steps, built, current, succeeded, result, ran>>
    /\ UNCHANGED <<cacheVars, stepVars, ariaVars>>

\* which of umount, losetup --detach and unlink succeed during one halt
CommandOutcomes == [umount : BOOLEAN, detach : BOOLEAN, unlink : BOOLEAN]

\* main's except branch: app.halt() inside a try (entrypoint.py:95-103)
ExplicitHalt(ok) ==
    /\ pc = "raised"
    /\ halt(ok)
    /\ pc' = "handled"

\* the exit hook registered by ImageCreator.__init__ (creator.py:44)
ExitHook(ok) ==
    /\ pc \in {"returned", "handled"}
    /\ halt(ok)
    /\ pc' = "exited"

(***************************************************************************)
(* CheckURLs (steps/check_inputs.py)                                       *)
(***************************************************************************)
\* how file.fetch_size() or image.oci.exists() can answer for a source
\* that is not in the cache: a size, no size, or an error
Probes == {"sized", "unknown", "unreachable"}

\* in_cache(item, check_outdacy=True) answered false for the item the loop
\* stands on, and the loop has not gone further
Probing ==
    /\ todo # << >>
    /\ last.op = "in_cache" /\ last.key = Head(todo) /\ last.ret = "false"

\* the item is examined, and found unreachable or not
Found(k, reachable) ==
    [found EXCEPT !.examined = @ \cup {k},
                  !.unreachable = @ \cup (IF reachable THEN {} ELSE {k})]

\* the head of a loop body of CheckURLs.run: in_cache(item,
\* check_outdacy=True), and `continue` when it answers true
\* (check_inputs.py:197-210, 224-230)
CheckCached ==
    /\ code = "none" /\ todo # << >> /\ ~Probing
    /\ InCache(Head(todo), TRUE)
    /\ IF last'.ret = "true"
       THEN todo' = Tail(todo) /\ found' = Found(Head(todo), TRUE)
       ELSE UNCHANGED <<todo, found>>
    /\ UNCHANGED <<all_valid, code, workers, futures, is_running, args, value>>

\* the rest of the loop body: the probe of the source, then add_candidate,
\* which does nothing with a disabled policy and otherwise builds a
\* CacheCandidate, whose digest query raises for a source that does not
\* answer (check_inputs.py:212-221, 232-237; manager.py:565-574, 194-204)
CheckProbe(probe) ==
    /\ code = "none" /\ Probing
    /\ all_valid' = (all_valid /\ probe # "unreachable")
    /\ found' = Found(Head(todo), probe # "unreachable")
    /\ IF policy.enabled
       THEN /\ \E dq \in (IF probe = "unreachable" THEN {"error"}
                          ELSE CandidateDigests) :
                 AddCandidate(Head(todo),
                              IF probe = "sized" THEN SizeOf(Head(todo))
                              ELSE UnknownSize, dq)
            /\ code' = IF last'.ret = "raised" THEN "raised" ELSE "none"
            /\ todo' = IF last'.ret = "raised" THEN todo ELSE Tail(todo)
       ELSE /\ UNCHANGED cacheVars
            /\ code' = "none"
            /\ todo' = Tail(todo)
    /\ UNCHANGED <<workers, futures, is_running, args, value>>

\* after the loops: apply_candidates() if there are candidates, then
\* `return 0 if all_valid else 4` (check_inputs.py:239-258)
CheckReturn ==
    /\ code = "none" /\ todo = << >>
    /\ IF candidates # << >> THEN ApplyCandidates ELSE UNCHANGED cacheVars
    /\ code' = IF all_valid THEN "0" ELSE "4"
    /\ UNCHANGED <<todo, all_valid, found, workers, futures, is_running, args,
                   value>>

(***************************************************************************)
(* DownloadingContent and FilesMultiDownloader (steps/contents.py)         *)
(***************************************************************************)
\* config.remote_files, as a set
Remotes == {args.files[i] : i \in 1..Len(args.files)}

\* `nb_remotes == 1 or options.concurrency == 1` sends run to the loop in
\* the driver thread, anything else to the multi-downloader
\* (contents.py:318)
Multi == Len(args.files) # 1 /\ args.concurrency # 1

\* where a call of download_file_worker stands ("mutating": inside
\* cache[file] += 1, should_cache or introduce; "stored": past it) and how its
\* Future ended
Working == {"running", "mutating", "stored"}
Done == {"succeeded", "failed", "cancelled"}

\* the thread that runs download_file_worker for a file: a thread of the
\* ThreadPoolExecutor, or the driver in the single-thread loop
ThreadOf(f) == IF Multi THEN "worker" ELSE "driver"

\* the files whose worker is inside a mutation of the cache manager
Mutating == {f \in Remotes : workers[f] = "mutating"}

\* FilesMultiDownloader.start (contents.py:207-222): every file's worker is
\* submitted to the executor and notify_completion is made its done callback
start ==
    /\ code = "none" /\ Multi
    /\ \A f \in Remotes : workers[f] = "idle"
    /\ is_running' = TRUE
    /\ workers' = [f \in Remotes |-> "queued"]
    /\ futures' = Remotes
    /\ UNCHANGED <<todo, all_valid, code, found, args, value>>

\* a thread of the executor, which has max_workers=concurrency of them,
\* takes a submitted worker
WorkerBegin(f) ==
    /\ Multi /\ workers[f] = "queued"
    /\ Cardinality({g \in Remotes : workers[g] \in Working}) < args.concurrency
    /\ workers' = [workers EXCEPT ![f] = "running"]
    /\ UNCHANGED <<todo, all_valid, code, found, futures, is_running, args,
                   value>>

\* the loop in the driver thread calls download_file_worker on the next
\* file (contents.py:325-335)
DriverBegin(i) ==
    /\ code = "none" /\ ~Multi
    /\ workers[args.files[i]] = "idle"
    /\ \A j \in 1..(i - 1) : workers[args.files[j]] = "succeeded"
    /\ workers' = [workers EXCEPT ![args.files[i]] = "running"]
    /\ UNCHANGED <<todo, all_valid, code, found, futures, is_running, args,
                   value>>

\* download_file_worker reaches `cache[file] += 1`, or `cache.should_cache`
\* and `cache.introduce` (contents.py:110-121, 127-144), which change the
\* manager when its policy is enabled
CacheEnter(f) ==
    /\ workers[f] = "running" /\ policy.enabled
    /\ workers' = [workers EXCEPT ![f] = "mutating"]
    /\ UNCHANGED <<todo, all_valid, code, found, futures, is_running, args,
                   value>>

\* the call into the manager returns
CacheLeave(f) ==
    /\ workers[f] = "mutating"
    /\ workers' = [workers EXCEPT ![f] = "stored"]
    /\ UNCHANGED <<todo, all_valid, code, found, futures, is_running, args,
                   value>>

\* download_file_worker returns or raises. In the driver's loop an
\* exception makes run return 1 (contents.py:336-341); in the executor the
\* Future is done
WorkerEnd(f, ok) ==
    /\ workers[f] \in {"running", "stored"}
    /\ workers' = [workers EXCEPT ![f] = IF ok THEN "succeeded" ELSE "failed"]
    /\ code' = IF ~Multi /\ ~ok /\ code = "none" THEN "1" ELSE code
    /\ UNCHANGED <<todo, all_valid, found, futures, is_running, args, value>>

\* the driver's loop is over: `return 0` (contents.py:350)
DriverReturn ==
    /\ code = "none" /\ ~Multi
    /\ \A f \in Remotes : workers[f] = "succeeded"
    /\ code' = "0"
    /\ UNCHANGED <<todo, all_valid, found, workers, futures, is_running, args,
                   value>>

\* FilesMultiDownloader.notify_completion (contents.py:180-205) for a done
\* Future: it is popped from futures; for a failed one, future.result(0.1)
\* in the arguments of the callback raises the worker's exception, which
\* is no CancelledError or TimeoutError and so leaves notify_completion
\* before is_running is looked at
notify_completion(f) ==
    /\ f \in futures /\ workers[f] \in Done
    /\ futures' = futures \ {f}
    /\ is_running' = IF workers[f] # "failed" /\ futures \ {f} = {}
                     THEN FALSE ELSE is_running
    /\ UNCHANGED <<todo, all_valid, code, found, workers, args, value>>

\* FilesMultiDownloader.shutdown (contents.py:224-229), now being true in
\* both calls: executor.shutdown(wait=False, cancel_futures=True) cancels
\* the Futures not started, which notifies their completion, and leaves the
\* running workers alone
shutdown(ret) ==
    /\ workers' = [f \in Remotes |->
                      IF workers[f] = "queued" THEN "cancelled" ELSE workers[f]]
    /\ futures' = {f \in futures : workers[f] # "queued"}
    /\ is_running' = FALSE
    /\ code' = ret

\* `while downloader.is_running` ends: shutdown(), `return 0`
\* (contents.py:387-399)
WaitEnd ==
    /\ code = "none" /\ Multi /\ ~is_running
    /\ \A f \in Remotes : workers[f] # "idle"
    /\ shutdown("0")
    /\ UNCHANGED <<todo, all_valid, found, args, value>>

\* KeyboardInterrupt in the wait loop: shutdown(now=True), then raise
\* (contents.py:390-392)
WaitInterrupt ==
    /\ code = "none" /\ Multi /\ is_running
    /\ shutdown("raised")
    /\ UNCHANGED <<todo, all_valid, found, args, value>>

(***************************************************************************)
(* Runs of the eviction engine, with what each of them lists               *)
(***************************************************************************)
\* the (key, reason) pairs of an engine result
Listing(r) == {<<r.es[p[1]].key, p[2].why>> : p \in r.ev}

\* a run of CacheManager.get_eviction_for over the objects es0 that gave r
\* is remembered: the operation, the objects as it found and as it left
\* them, and the pairs it returned
RunTo(op, es0, r) ==
    /\ value' = [op |-> op, before |-> es0, es |-> r.es, listed |-> Listing(r)]
    /\ UNCHANGED <<todo, all_valid, code, found, workers, futures, is_running,
                   args>>

\* dry_apply(), apply() and apply_candidates() (manager.py:612-653)
ListedDryApply ==
    /\ policy.enabled
    /\ DryApply
    /\ RunTo("dry_apply", Discover(entries, discovered, disk).entries,
             ManagerEvictionFor(Discover(entries, discovered, disk).entries, now))

ListedApply ==
    Apply /\ RunTo("apply", entries, ManagerEvictionFor(entries, now))

ListedApplyCandidates ==
    /\ policy.enabled
    /\ ApplyCandidates
    /\ RunTo("apply_candidates", entries \o candidates,
             ManagerEvictionFor(entries \o candidates, now))
(***************************************************************************)
(* Policies and disks the manager is constructed over                      *)
(***************************************************************************)
\* SubPolicy.check / MainPolicy.check (policy.py:140-153, 234-248): a set
\* child bound may not exceed the set bound of its parent
Exceeds_but_max_num(child, parent) ==
    \/ child.max_size # 0 /\ parent.max_size # 0 /\ child.max_size > parent.max_size
    \/ child.max_age # 0 /\ parent.max_age # 0 /\ child.max_age > parent.max_age

Exceeds(child, parent) ==
    \/ child.max_size # 0 /\ parent.max_size # 0 /\ child.max_size > parent.max_size
    \/ child.max_age # 0 /\ parent.max_age # 0 /\ child.max_age > parent.max_age
    \/ child.max_num # 0 /\ parent.max_num # 0 /\ child.max_num > parent.max_num

SubPolicyCheck(sub) ==
    \A i \in 1..Len(sub.filters) : ~Exceeds(sub.filters[i], sub)

MainPolicyCheck(p) ==
    /\ SubPolicyCheck(p.oci_images) /\ SubPolicyCheck(p.files)
    /\ ~Exceeds(p.oci_images, p) /\ ~Exceeds(p.files, p)

\* a filter claiming every http source, holding one item
OneHttp == Filter({"http"}, FALSE, 0, 0, 1, "oldest", NoCheckAfter, 0)

AdmissionPolicies ==
    {MainPolicy(TRUE, 100, 0, 0, "oldest", NoCheckAfter, 0,
                DefaultSubPolicy, DefaultSubPolicy),
     MainPolicy(TRUE, 0, 0, 0, "lru", NoCheckAfter, 0, DefaultSubPolicy,
                SubPolicy(TRUE, 0, 0, 0, "lru", NoCheckAfter, 0, <<OneHttp>>)),
     MainPolicy(TRUE, 0, 0, 1, "oldest", NoCheckAfter, 0, DefaultSubPolicy,
                SubPolicy(TRUE, 59, 0, 0, "newest", NoCheckAfter, 0, << >>)),
     MainPolicy(FALSE, 0, 0, 0, "lru", NoCheckAfter, 0,
                DefaultSubPolicy, DefaultSubPolicy)}

Policies == {p \in AdmissionPolicies : MainPolicyCheck(p)}

\* an entry file as introduce left it at instant t
EntryFile(k, t, digest) == File(SizeOf(k), TRUE, t, t, t, 1, digest)

\* the files a cache directory can hold for key k when the run starts
FilesFor(k) ==
    CASE k = "A" -> {EntryFile(k, 1, "d1")}
      [] k = "B" -> {NoFile, EntryFile(k, 2, "d1")}
      [] OTHER -> {NoFile}

Disks ==
    {d \in [Keys -> UNION {FilesFor(k) : k \in Keys}] :
        \A k \in Keys : d[k] \in FilesFor(k)}

\* the sources a run's configuration can declare
Configs == {{"C"}, {"B", "C"}}

TypeOK ==
    /\ now \in RefDate..MaxTime
    /\ discovered \in BOOLEAN /\ applied \in BOOLEAN /\ considered \in BOOLEAN
    /\ KeysOf(entries) \subseteq Keys
    /\ KeysOf(candidates) \subseteq declared

\* no step checks or downloads sources, no function is studied
StepsIdle ==
    /\ todo = << >>
    /\ all_valid = TRUE
    /\ code = "none"
    /\ found = [examined |-> {}, unreachable |-> {}]
    /\ workers = << >>
    /\ futures = {}
    /\ is_running = FALSE
    /\ args = "-"
    /\ value = "-"

\* no Downloader was made
NoDownloader ==
    /\ downloads = << >>
    /\ halt_on_error = TRUE
    /\ is_halted = FALSE
    /\ is_listening = FALSE
    /\ notifications = << >>
    /\ paths = [folder |-> "none", to |-> "absent", by |-> "none", written |-> {}]
    /\ blocked = "idle"

\* a driver that has not started, with every option off
NotStarted ==
    /\ options = [check_only |-> FALSE, show_cache |-> FALSE,
                  keep_failed |-> FALSE, overwrite |-> FALSE,
                  cache_dir |-> TRUE]
    /\ steps = AllSteps
    /\ pc = "new"
    /\ built = FALSE
    /\ current = 0
    /\ succeeded = FALSE
    /\ image = NoImage
    /\ output = FALSE
    /\ result = "pending"
    /\ ran = << >>
    /\ halts = 0
    /\ haltRaised = FALSE
    /\ cleaned = << >>
    /\ cmds = << >>

\* the manager right after construction, but for its objects, the driver
\* being left aside
Created ==
    /\ NotStarted
    /\ NoDownloader
    /\ now = RefDate
    /\ applied = FALSE
    /\ considered = FALSE
    /\ screened = {}
    /\ last = [op |-> "init", key |-> "-", ret |-> "none", queried |-> {},
               failed |-> FALSE, ev |-> {}]

\* the cache specifications leave the steps aside as well
Constructed == Created /\ StepsIdle

\* CacheManager.__init__ (manager.py:428-447)
Fresh ==
    /\ Constructed
    /\ entries = << >>
    /\ candidates = << >>
    /\ discovered = FALSE

Init ==
    /\ policy \in Policies
    /\ disk \in Disks
    /\ declared \in Configs
    /\ Fresh

Next ==
    \/ Walk /\ UNCHANGED <<machineVars, stepVars, ariaVars>>
    \/ DryApply /\ UNCHANGED <<machineVars, stepVars, ariaVars>>
    \/ Apply /\ UNCHANGED <<machineVars, stepVars, ariaVars>>
    \/ EvictOutdated /\ UNCHANGED <<machineVars, stepVars, ariaVars>>
    \/ \E k \in declared : InCache(k, TRUE) /\ UNCHANGED <<machineVars, stepVars, ariaVars>>
    \/ \E k \in declared, dq \in CandidateDigests \cup {"error"} :
          \E size \in DeclaredSizes(k) : AddCandidate(k, size, dq) /\ UNCHANGED <<machineVars, stepVars, ariaVars>>
    \/ ApplyCandidates /\ UNCHANGED <<machineVars, stepVars, ariaVars>>

Spec == Init /\ [][Next]_vars


\* the screening protocol alone
NextScreen ==
    \/ \E k \in declared : InCache(k, TRUE) /\ UNCHANGED <<machineVars, stepVars, ariaVars>>
    \/ \E k \in declared, dq \in CandidateDigests \cup {"error"} :
          \E size \in DeclaredSizes(k) : AddCandidate(k, size, dq) /\ UNCHANGED <<machineVars, stepVars, ariaVars>>
    \/ ApplyCandidates /\ UNCHANGED <<machineVars, stepVars, ariaVars>>
    \/ \E k \in declared : ShouldCache(k) /\ UNCHANGED <<machineVars, stepVars, ariaVars>>

SpecScreen == Init /\ [][NextScreen]_vars

\* the store: membership, admission, introduction, usage and eviction
NextStore ==
    \/ \E k \in declared, chk \in BOOLEAN : InCache(k, chk) /\ UNCHANGED <<machineVars, stepVars, ariaVars>>
    \/ \E k \in declared, dq \in CandidateDigests \cup {"error"} :
          \E size \in DeclaredSizes(k) : AddCandidate(k, size, dq) /\ UNCHANGED <<machineVars, stepVars, ariaVars>>
    \/ ApplyCandidates /\ UNCHANGED <<machineVars, stepVars, ariaVars>>
    \/ \E k \in declared, out \in IntroduceOutcomes, dq \in CandidateDigests :
          Introduce(k, out, dq) /\ UNCHANGED <<machineVars, stepVars, ariaVars>>
    \/ \E k \in Keys : Evict(k) /\ UNCHANGED <<machineVars, stepVars, ariaVars>>
    \/ \E k \in declared : MarkUsage(k) /\ UNCHANGED <<machineVars, stepVars, ariaVars>>

\* the store is exercised under a size-bounded and an unbounded policy
InitStore ==
    /\ policy \in {MainPolicy(TRUE, 100, 0, 0, "oldest", NoCheckAfter, 0,
                               DefaultSubPolicy, DefaultSubPolicy),
                    MainPolicy(TRUE, 0, 0, 0, "lru", NoCheckAfter, 0,
                               DefaultSubPolicy, DefaultSubPolicy)}
    /\ disk \in Disks
    /\ declared = {"B"}
    /\ Fresh

SpecStore == InitStore /\ [][NextStore]_vars


\* policies with a check window, on the main policy or on a filter
OutdacyPolicies ==
    {MainPolicy(TRUE, 0, 0, 0, "lru", 1, 0, DefaultSubPolicy, DefaultSubPolicy),
     MainPolicy(TRUE, 0, 0, 0, "lru", NoCheckAfter, 0, DefaultSubPolicy,
                SubPolicy(TRUE, 0, 0, 0, "lru", NoCheckAfter, 0,
                          <<Filter({"http"}, FALSE, 0, 0, 0, "lru", 2, 0)>>)),
     MainPolicy(TRUE, 0, 0, 0, "lru", NoCheckAfter, 0,
                DefaultSubPolicy, DefaultSubPolicy)}

\* entry files with and without a digest, checked at various instants
OutdacyFilesFor(k) ==
    CASE k = "A" -> {File(SizeOf(k), TRUE, 1, t, 1, 1, "d1") : t \in 1..2}
      [] k = "B" -> {NoFile} \cup
                    {File(SizeOf(k), TRUE, 2, t, 2, 1, "") : t \in 2..3}
      [] OTHER -> {NoFile}

InitOutdacy ==
    /\ policy \in OutdacyPolicies
    /\ disk \in {d \in [Keys -> UNION {OutdacyFilesFor(k) : k \in Keys}] :
                    \A k \in Keys : d[k] \in OutdacyFilesFor(k)}
    /\ declared = {"A", "B"}
    /\ Fresh

\* outdacy checks over time
NextOutdacy ==
    \/ Walk /\ UNCHANGED <<machineVars, stepVars, ariaVars>>
    \/ DryApply /\ UNCHANGED <<machineVars, stepVars, ariaVars>>
    \/ Apply /\ UNCHANGED <<machineVars, stepVars, ariaVars>>
    \/ EvictOutdated /\ UNCHANGED <<machineVars, stepVars, ariaVars>>
    \/ \E k \in declared, chk \in BOOLEAN : InCache(k, chk) /\ UNCHANGED <<machineVars, stepVars, ariaVars>>
    \/ Tick /\ UNCHANGED <<machineVars, stepVars, ariaVars>>

SpecOutdacy == InitOutdacy /\ [][NextOutdacy]_vars


\* policy nodes with bounds on a filter, on the files sub-policy and on the
\* main policy, under two disciplines
EnginePolicies ==
    {p \in {MainPolicy(TRUE, ms, 0, mn, ev, NoCheckAfter, 0, DefaultSubPolicy,
                SubPolicy(TRUE, sb[1], 0, sb[2], sev, NoCheckAfter, 0,
                    <<Filter({"http"}, FALSE, fb[1], 0, fb[2], fev,
                             NoCheckAfter, 0)>>)) :
            ms \in {0, 100}, mn \in {0, 2}, ev \in {"oldest", "newest"},
            sb \in {<<0, 0>>, <<59, 0>>, <<0, 1>>}, sev \in {"oldest", "newest"},
            fb \in {<<0, 1>>, <<59, 0>>}, fev \in {"oldest", "newest"}} :
        MainPolicyCheck(p)}

\* lists of objects no call has processed: the entries of a walk, then
\* possibly a candidate of known or unknown size
InitEngine ==
    /\ policy \in EnginePolicies
    /\ disk \in Disks
    /\ declared = {"C"}
    /\ entries = WalkFrom(disk, 1)
    /\ discovered = TRUE
    /\ Constructed
    /\ candidates \in {<< >>} \cup
          {<<CacheCandidate("C", size, "d1", RefDate)>> : size \in DeclaredSizes("C")}

NextEngine ==
    \E level \in {"MainPolicy", "FilesPolicy"} :
        EngineCall(level) /\ UNCHANGED <<machineVars, stepVars, ariaVars>>

SpecEngine == InitEngine /\ [][NextEngine]_vars



\* the download steps of a run, after CheckURLs screened the declared items
NextUsage ==
    \/ \E k \in declared : InCache(k, TRUE) /\ UNCHANGED <<machineVars, stepVars, ariaVars>>
    \/ \E k \in declared, dq \in CandidateDigests :
          AddCandidate(k, SizeOf(k), dq) /\ UNCHANGED <<machineVars, stepVars, ariaVars>>
    \/ \E k \in declared, compressed \in BOOLEAN, out \in DownloadOutcomes,
            iout \in StepIntroduceOutcomes, dq \in CandidateDigests :
          DownloadImage(k, compressed, out, iout, dq) /\ UNCHANGED <<machineVars, stepVars, ariaVars>>
    \/ \E k \in declared, out \in DownloadOutcomes,
            iout \in StepIntroduceOutcomes, dq \in CandidateDigests :
          DownloadFile(k, out, iout, dq) /\ UNCHANGED <<machineVars, stepVars, ariaVars>>
    \/ \E k \in declared, out \in DownloadOutcomes,
            iout \in StepIntroduceOutcomes, dq \in CandidateDigests :
          DownloadOCIImage(k, out, iout, dq) /\ UNCHANGED <<machineVars, stepVars, ariaVars>>

InitUsage ==
    /\ policy \in {MainPolicy(TRUE, 100, 0, 0, "oldest", NoCheckAfter, 0,
                               DefaultSubPolicy, DefaultSubPolicy),
                    MainPolicy(TRUE, 0, 0, 0, "lru", NoCheckAfter, 0,
                               DefaultSubPolicy, DefaultSubPolicy)}
    /\ disk \in Disks
    /\ declared = {"B", "C"}
    /\ Fresh

SpecUsage == InitUsage /\ [][NextUsage]_vars

\* a cache manager nobody calls: the driver specifications leave it aside
CacheAside ==
    /\ policy = MainPolicy(FALSE, 0, 0, 0, "lru", NoCheckAfter, 0,
                           DefaultSubPolicy, DefaultSubPolicy)
    /\ disk = [k \in Keys |-> NoFile]
    /\ declared = {}
    /\ now = RefDate
    /\ applied = FALSE
    /\ considered = FALSE
    /\ screened = {}
    /\ last = [op |-> "init", key |-> "-", ret |-> "none", queried |-> {},
               failed |-> FALSE, ev |-> {}]
    /\ entries = << >>
    /\ candidates = << >>
    /\ discovered = FALSE

\* the command-line options (entrypoint.py:36-66)
AllOptions ==
    [check_only : BOOLEAN, show_cache : BOOLEAN, keep_failed : BOOLEAN,
     overwrite : BOOLEAN, cache_dir : BOOLEAN]

\* ImageCreator.__init__ (creator.py:13-44): options set, exit hook
\* registered, no machine yet; the output file may exist already
InitMachine ==
    /\ CacheAside
    /\ StepsIdle
    /\ NoDownloader
    /\ options \in AllOptions
    /\ steps = AllSteps
    /\ pc = "new"
    /\ built = FALSE
    /\ current = 0
    /\ succeeded = FALSE
    /\ image = NoImage
    /\ output \in BOOLEAN
    /\ result = "pending"
    /\ ran = << >>
    /\ halts = 0
    /\ haltRaised = FALSE
    /\ cleaned = << >>
    /\ cmds = << >>

\* entrypoint.main: run, then halt from the except branch and from the exit
\* hook
NextMachine ==
    \/ StartRun
    \/ \E out \in {"ok", "fail", "raise", "partial", "attached"} : RunStep(out)
    \/ EndOfSteps
    \/ Interrupt
    \/ \E ok \in CommandOutcomes : ExplicitHalt(ok)
    \/ \E ok \in CommandOutcomes : ExitHook(ok)

SpecMachine == InitMachine /\ [][NextMachine]_vars

\* CheckURLs over three declared remote files, with the cache enabled or
\* disabled
InitCheckURLs ==
    /\ policy \in {MainPolicy(TRUE, 100, 0, 0, "oldest", NoCheckAfter, 0,
                               DefaultSubPolicy, DefaultSubPolicy),
                    MainPolicy(FALSE, 0, 0, 0, "lru", NoCheckAfter, 0,
                               DefaultSubPolicy, DefaultSubPolicy)}
    /\ disk \in Disks
    /\ declared = Keys
    /\ Created
    /\ entries = << >> /\ candidates = << >> /\ discovered = FALSE
    /\ todo \in {<<"A", "B", "C">>, <<"C", "A", "B">>}
    /\ all_valid = TRUE
    /\ code = "none"
    /\ found = [examined |-> {}, unreachable |-> {}]
    /\ workers = << >> /\ futures = {} /\ is_running = FALSE
    /\ args = "-" /\ value = "-"

NextCheckURLs ==
    \/ CheckCached /\ UNCHANGED <<machineVars, ariaVars>>
    \/ \E probe \in Probes : CheckProbe(probe) /\ UNCHANGED <<machineVars, ariaVars>>
    \/ CheckReturn /\ UNCHANGED <<machineVars, ariaVars>>

SpecCheckURLs == InitCheckURLs /\ [][NextCheckURLs]_vars

\* the concurrency option, and the remote files of a configuration
Concurrencies == {1, 2}
RemoteFiles == {<<"A">>, <<"A", "B">>, <<"A", "B", "C">>}

\* DownloadingContent.run past its first lines, the cache manager being
\* enabled or not and called by nobody else
InitBatch ==
    /\ policy \in {MainPolicy(TRUE, 0, 0, 0, "lru", NoCheckAfter, 0,
                               DefaultSubPolicy, DefaultSubPolicy),
                    MainPolicy(FALSE, 0, 0, 0, "lru", NoCheckAfter, 0,
                               DefaultSubPolicy, DefaultSubPolicy)}
    /\ disk = [k \in Keys |-> NoFile]
    /\ declared = Keys
    /\ Created
    /\ entries = << >> /\ candidates = << >> /\ discovered = FALSE
    /\ todo = << >> /\ all_valid = TRUE
    /\ found = [examined |-> {}, unreachable |-> {}]
    /\ code = "none"
    /\ args \in [files : RemoteFiles, concurrency : Concurrencies]
    /\ workers = [f \in Remotes |-> "idle"]
    /\ futures = {}
    /\ is_running = FALSE
    /\ value = "-"

\* what the program does by itself
BatchSteps ==
    \/ start /\ UNCHANGED <<cacheVars, machineVars, ariaVars>>
    \/ \E f \in Remotes : WorkerBegin(f) /\ UNCHANGED <<cacheVars, machineVars, ariaVars>>
    \/ \E i \in 1..Len(args.files) :
          DriverBegin(i) /\ UNCHANGED <<cacheVars, machineVars, ariaVars>>
    \/ \E f \in Remotes : CacheEnter(f) /\ UNCHANGED <<cacheVars, machineVars, ariaVars>>
    \/ \E f \in Remotes : CacheLeave(f) /\ UNCHANGED <<cacheVars, machineVars, ariaVars>>
    \/ \E f \in Remotes, ok \in BOOLEAN :
          WorkerEnd(f, ok) /\ UNCHANGED <<cacheVars, machineVars, ariaVars>>
    \/ DriverReturn /\ UNCHANGED <<cacheVars, machineVars, ariaVars>>
    \/ \E f \in Remotes :
          notify_completion(f) /\ UNCHANGED <<cacheVars, machineVars, ariaVars>>
    \/ WaitEnd /\ UNCHANGED <<cacheVars, machineVars, ariaVars>>

NextBatch ==
    \/ BatchSteps
    \/ WaitInterrupt /\ UNCHANGED <<cacheVars, machineVars, ariaVars>>

SpecBatch == InitBatch /\ [][NextBatch]_vars

\* threads are scheduled and the wait loop keeps polling; nobody has to
\* interrupt
SpecBatchFair == SpecBatch /\ WF_vars(BatchSteps)

\* the bounds a policy document can give (0: not given, or given as 0,
\* which parse_max_size and parse_max_age turn into None)
MaxBound == 2
Bounds == 0..MaxBound

\* policy documents: bounds on the main policy, on the files sub-policy and
\* on its filter, and a number of items on the images sub-policy and on its
\* filter
RawPolicies ==
    {MainPolicy(TRUE, m[1], m[2], m[3], "lru", NoCheckAfter, 0,
        SubPolicy(TRUE, 0, 0, o[1], "lru", NoCheckAfter, 0,
            <<Filter({"http"}, FALSE, 0, 0, o[2], "lru", NoCheckAfter, 0)>>),
        SubPolicy(TRUE, s[1], s[2], s[3], "lru", NoCheckAfter, 0,
            <<Filter({"http"}, FALSE, f[1], f[2], f[3], "lru",
                     NoCheckAfter, 0)>>)) :
        m \in Bounds \X Bounds \X Bounds, s \in Bounds \X Bounds \X Bounds,
        f \in Bounds \X Bounds \X Bounds, o \in {<<0, 0>>, <<1, MaxBound>>, <<MaxBound, 1>>}}

\* MainPolicy.read_from (policy.py:197-232): the filters are built, then
\* each sub-policy, whose __post_init__ checks its filters, then the main
\* policy, whose __post_init__ checks the sub-policies
read_from(raw) == IF MainPolicyCheck(raw) THEN "ok" ELSE "exceeds"

Construct ==
    /\ value = "-"
    /\ value' = read_from(args)
    /\ UNCHANGED <<todo, all_valid, code, found, workers, futures, is_running,
                   args>>

InitPolicy ==
    /\ policy = MainPolicy(FALSE, 0, 0, 0, "lru", NoCheckAfter, 0,
                           DefaultSubPolicy, DefaultSubPolicy)
    /\ disk = [k \in Keys |-> NoFile]
    /\ declared = {}
    /\ Created
    /\ entries = << >> /\ candidates = << >> /\ discovered = FALSE
    /\ todo = << >> /\ all_valid = TRUE /\ code = "none"
    /\ found = [examined |-> {}, unreachable |-> {}]
    /\ workers = << >> /\ futures = {} /\ is_running = FALSE
    /\ args \in RawPolicies
    /\ value = "-"

NextPolicy == Construct /\ UNCHANGED <<cacheVars, machineVars, ariaVars>>

SpecPolicy == InitPolicy /\ [][NextPolicy]_vars

\* filters of a files sub-policy: the one of scenario S4, one that takes
\* every source and one that takes the http sources, each at most one item
FilterChoices ==
    {Filter({"ftp"}, TRUE, 0, 0, 0, "lru", NoCheckAfter, 0),
     Filter({"http", "ftp"}, FALSE, 0, 0, 1, "oldest", NoCheckAfter, 0),
     Filter({"http"}, FALSE, 0, 0, 1, "newest", NoCheckAfter, 0)}

FilterLists ==
    {<<f>> : f \in FilterChoices} \cup {<<f, g>> : f, g \in FilterChoices}

\* a walked cache holding A, possibly B, and the file Z got over ftp, under a
\* files sub-policy with filters; C may be a candidate
InitFilters ==
    /\ policy \in {MainPolicy(TRUE, 0, 0, 0, "lru", NoCheckAfter, 0,
                       DefaultSubPolicy,
                       SubPolicy(TRUE, 0, 0, 0, "lru", NoCheckAfter, 0, fs)) :
                   fs \in FilterLists}
    /\ disk \in {[k \in Keys \cup FtpKeys |->
                    CASE k = "A" -> EntryFile(k, 1, "d1")
                      [] k = "B" -> b
                      [] k = "Z" -> EntryFile(k, 2, "")
                      [] OTHER -> NoFile] :
                 b \in {NoFile, EntryFile("B", 2, "d1")}}
    /\ candidates \in {<< >>, <<CacheCandidate("C", SizeOf("C"), "d1", RefDate)>>}
    /\ declared = {"C"}

\* the cache of scenario S5, or a part of it with one of its images as a
\* candidate, under an images sub-policy that keeps one or two versions
InitVersions ==
    /\ policy \in {MainPolicy(TRUE, 0, 0, 0, "lru", NoCheckAfter, 0,
                       SubPolicy(TRUE, 0, 0, 0, "lru", NoCheckAfter, kiv, << >>),
                       DefaultSubPolicy) : kiv \in {1, 2}}
    /\ \E present \in {Images, {"img:1.0", "img:1.1"}, {"img:1.1", "img:2.0"},
                       {"img:1.0", "img:1.1", "img:2.0"}} :
          /\ disk = [k \in Images |->
                        IF k \in present THEN EntryFile(k, KeyRank(k) - 1, "d1")
                        ELSE NoFile]
          /\ candidates \in {<< >>} \cup
                {<<CacheCandidate(k, SizeOf(k), "d1", RefDate)>> :
                    k \in Images \ present}
    /\ declared = Images

\* a file used at instant t after it was added at instant a
UsedFile(k, a, t) == File(SizeOf(k), TRUE, a, a, t, 1, "d1")

\* a cache of three files under one policy node that only bounds the number
\* of items, for each discipline
InitDiscipline ==
    /\ policy \in
          {MainPolicy(TRUE, 0, 0, n, ev, NoCheckAfter, 0, DefaultSubPolicy,
                      DefaultSubPolicy) : n \in {1, 2}, ev \in Evictions}
          \cup
          {MainPolicy(TRUE, 0, 0, 0, "lru", NoCheckAfter, 0, DefaultSubPolicy,
                      SubPolicy(TRUE, 0, 0, n, ev, NoCheckAfter, 0, << >>)) :
              n \in {1, 2}, ev \in Evictions}
    /\ disk \in {[k \in Keys |->
                    CASE k = "A" -> UsedFile(k, a[1], a[2])
                      [] k = "B" -> UsedFile(k, b[1], b[2])
                      [] OTHER -> c] :
                 a \in {<<1, 3>>, <<2, 2>>}, b \in {<<2, 3>>, <<1, 1>>},
                 c \in {NoFile, UsedFile("C", 0, 2)}}
    /\ candidates \in {<< >>} \cup
          {<<CacheCandidate("C", SizeOf("C"), "d1", RefDate)>> :
              x \in {1} \cap {y \in {1} : ~disk["C"].exists}}
    /\ declared = {"C"}

InitRuns ==
    /\ InitFilters \/ InitVersions \/ InitDiscipline
    /\ Created
    /\ entries = WalkFrom(disk, 1) /\ discovered = TRUE
    /\ todo = << >> /\ all_valid = TRUE /\ code = "none"
    /\ found = [examined |-> {}, unreachable |-> {}]
    /\ workers = << >> /\ futures = {} /\ is_running = FALSE
    /\ args = "-"
    /\ value = "-"

NextRuns ==
    \/ ListedDryApply /\ UNCHANGED <<machineVars, ariaVars>>
    \/ ListedApply /\ UNCHANGED <<machineVars, ariaVars>>
    \/ ListedApplyCandidates /\ UNCHANGED <<machineVars, ariaVars>>

SpecRuns == InitRuns /\ [][NextRuns]_vars

(***************************************************************************)
(* The cache keys (cache/manager.py, path_for_item)                        *)
(***************************************************************************)
\* A URL path is kept as the sequence of the texts between its slashes:
\* <<>> is the empty path, <<"">> is "/", <<"a", "">> is "/a/" and
\* <<"a", "..", "b">> is "/a/../b".  A cache key is the sequence of the
\* parts of the pathlib.Path the function returns.
UrlPaths ==
    {<<>>, <<"">>, <<"a">>, <<"a", "">>, <<"b">>, <<"a", "b">>,
     <<"a", "..", "b">>, <<"a", "..">>, <<"__ROOT__">>}

\* the remote File sources of the model (urllib.parse.ParseResult)
FileSources ==
    [kind : {"file"}, scheme : {"http", "https"}, netloc : {"h", "g"},
     path : UrlPaths, params : {"", "p"}, query : {"", "q"},
     fragment : {"", "f"}]

\* the images of the model (offspot_config OCIImage.oci)
ImageSources ==
    [kind : {"image"}, registry : {"ghcr.io", "docker.io"},
     repository : {"offspot", "kiwix"}, name : {"img", "web"},
     tag : {"", "1.0"}, digest : {"", "sha256:d"}]

\* pathlib.Path(url.path).resolve() on the parts after the root: empty
\* texts and "." are dropped by the Path constructor, ".." removes the part
\* before it and stays at the root; no part of these paths is a symbolic
\* link on the build machine (manager.py:65)
RECURSIVE resolve(_, _)
resolve(segs, acc) ==
    IF segs = <<>> THEN acc
    ELSE LET s == Head(segs) IN
         resolve(Tail(segs),
                 CASE s \in {"", "."} -> acc
                   [] s = ".." -> IF acc = <<>> THEN acc
                                  ELSE SubSeq(acc, 1, Len(acc) - 1)
                   [] OTHER -> Append(acc, s))

\* path.parts past the root in path_for_file (manager.py:62-65)
PartsOf(file) ==
    IF file.path = <<>> \/ file.path = <<"">> THEN <<"__ROOT__">>
    ELSE resolve(file.path, <<>>)

\* what path_for_file adds to the basename (manager.py:69-74)
Suffix(file) ==
    (IF file.params # "" THEN ";" \o file.params ELSE "")
    \o (IF file.query # "" THEN "?" \o file.query ELSE "")
    \o (IF file.fragment # "" THEN "#" \o file.fragment ELSE "")

\* path_for_file (manager.py:57-83).  A path that resolves to the root has
\* parts ("/",): the basename is then "/" and joinpath, given an absolute
\* path, forgets "files/<scheme>/<netloc>"
path_for_file(file) ==
    LET parts == PartsOf(file) IN
    IF parts = <<>>
    THEN IF Suffix(file) = "" THEN <<"/">> ELSE <<"/", Suffix(file)>>
    ELSE <<"files", file.scheme, file.netloc>>
         \o SubSeq(parts, 1, Len(parts) - 1)
         \o <<parts[Len(parts)] \o Suffix(file)>>

\* path_for_image (manager.py:42-54)
path_for_image(img) ==
    <<"images", img.registry, img.repository,
      img.name
      \o (IF img.tag # "" THEN ":" \o img.tag ELSE "")
      \o (IF img.digest # "" THEN "@" \o img.digest ELSE "")>>

\* path_for_item (manager.py:38-39)
path_for_item(item) ==
    IF item.kind = "image" THEN path_for_image(item) ELSE path_for_file(item)

\* two items are given
InitKeys ==
    /\ policy = MainPolicy(TRUE, 0, 0, 0, "lru", NoCheckAfter, 0,
                           DefaultSubPolicy, DefaultSubPolicy)
    /\ disk = [k \in Keys |-> NoFile]
    /\ declared = {}
    /\ Created
    /\ entries = <<>> /\ candidates = <<>> /\ discovered = FALSE
    /\ todo = <<>>
    /\ all_valid = TRUE
    /\ code = "none"
    /\ found = [examined |-> {}, unreachable |-> {}]
    /\ workers = <<>>
    /\ futures = {}
    /\ is_running = FALSE
    /\ args \in (FileSources \cup ImageSources) \X (FileSources \cup ImageSources)
    /\ value = <<>>

\* the keys of the two items are computed
KeyBoth ==
    /\ value = <<>>
    /\ value' = <<path_for_item(args[1]), path_for_item(args[2])>>
    /\ UNCHANGED <<todo, all_valid, code, found, workers, futures,
                   is_running, args>>

NextKeys ==
    \/ KeyBoth /\ UNCHANGED <<cacheVars, machineVars, ariaVars>>

SpecKeys == InitKeys /\ [][NextKeys]_vars

(***************************************************************************)
(* walk() over files with any extended attributes (cache/manager.py)       *)
(***************************************************************************)
\* the attributes CacheEntry.__init__ reads without a default
\* (manager.py:115-123); last_checked_on falls back on added_on
RequiredAttrs == {"digest", "added_on", "last_used_on", "nb_used", "source"}

\* the sets of attributes a file of the cache directory carries in the model
AttrSets ==
    {RequiredAttrs, RequiredAttrs \cup {"last_checked_on"},
     RequiredAttrs \ {"digest"}, RequiredAttrs \ {"added_on"},
     RequiredAttrs \ {"source"}, {"digest"}, {}}

\* file_is_entry (manager.py:86-88) on a file with the attributes attrs
file_is_entry(attrs) == "digest" \in attrs

\* CacheEntry.__init__ raises KeyError on such a file: metadata[name] of an
\* absent attribute (manager.py:115-123)
EntryRaises(attrs) == ~(RequiredAttrs \subseteq attrs)

\* the files walk() builds a CacheEntry of (manager.py:455-460)
Walked(d, attrs) == {k \in DOMAIN d : d[k].exists /\ file_is_entry(attrs[k])}

\* a cache directory whose files carry any of the attribute sets; args is
\* the attributes of each file
InitWalk ==
    /\ policy \in {MainPolicy(en, 0, 0, 0, "lru", NoCheckAfter, 0,
                              DefaultSubPolicy, DefaultSubPolicy) : en \in BOOLEAN}
    /\ args \in [Keys -> AttrSets]
    /\ \E present \in SUBSET Keys :
          disk = [k \in Keys |->
                     IF k \in present
                     THEN File(SizeOf(k), file_is_entry(args[k]), RefDate,
                               RefDate, RefDate, 1, "d1")
                     ELSE NoFile]
    /\ declared = {}
    /\ Created
    /\ entries = <<>> /\ candidates = <<>> /\ discovered = FALSE
    /\ todo = <<>> /\ all_valid = TRUE /\ code = "none"
    /\ found = [examined |-> {}, unreachable |-> {}]
    /\ workers = <<>> /\ futures = {} /\ is_running = FALSE
    /\ value = "-"

\* CacheManager.walk (manager.py:449-462): an exception of CacheEntry leaves
\* walk before self.entries and self.discovered are assigned
WalkFiles ==
    /\ code = "none"
    /\ IF ~policy.enabled
       THEN /\ code' = "returned"
            /\ UNCHANGED <<entries, discovered>>
       ELSE IF \E k \in Walked(disk, args) : EntryRaises(args[k])
       THEN /\ code' = "raised"
            /\ UNCHANGED <<entries, discovered>>
       ELSE /\ code' = "returned"
            /\ entries' = WalkFrom(disk, 1)
            /\ discovered' = TRUE
    /\ last' = Last("walk", "-", "none", {}, FALSE)
    /\ UNCHANGED <<policy, now, disk, candidates, applied, considered,
                   declared, screened>>
    /\ UNCHANGED <<todo, all_valid, found, workers, futures, is_running,
                   args, value>>

NextWalk ==
    \/ WalkFiles /\ UNCHANGED <<machineVars, ariaVars>>

SpecWalk == InitWalk /\ [][NextWalk]_vars

(***************************************************************************)
(* The aria2 downloader (utils/aria2.py)                                   *)
(***************************************************************************)
\* The Download that add() returned has gid 0; the downloads aria2 makes
\* once it has read a metalink or a torrent (its followers) have gids
\* 1, 2, ...  A status is aria2's: "active", "complete", "error" or
\* "removed".

\* the most followers a download has in the model
MaxFollowers == 2

\* what a URI can be: a direct file; a metalink of n files, one follower
\* each; a torrent of one file or more, got from a .torrent file
\* (bittorrent FALSE) or from a magnet link (bittorrent TRUE), with one
\* follower
Shapes ==
    {[kind |-> "direct", n |-> 0, files |-> 1, bittorrent |-> FALSE]}
    \cup [kind : {"metalink"}, n : 1..MaxFollowers, files : {1},
          bittorrent : {FALSE}]
    \cup [kind : {"torrent"}, n : {1}, files : {1, 2}, bittorrent : BOOLEAN]

\* Download.create_from (aria2.py:377-398) for the download Downloader.add
\* placed with options.dir (aria2.py:849-862)
NewDownload(shape, dir) ==
    [kind |-> shape.kind, n |-> shape.n, files |-> shape.files,
     bittorrent |-> shape.bittorrent, dir |-> dir, status |-> "active",
     followers |-> << >>, post_processed |-> FALSE, done |-> FALSE]

\* Download.followers_active (aria2.py:513-518)
followers_active(dl) ==
    \E i \in DOMAIN dl.followers :
        dl.followers[i] \in {"active", "waiting", "paused"}

\* any(dl.status == "error" for dl in self.all_downloads)
\* (aria2.py:260, 467-470)
AnyError(dl) ==
    \/ dl.status = "error"
    \/ \E i \in DOMAIN dl.followers : dl.followers[i] = "error"

\* Download.is_processing (aria2.py:236-263)
is_processing(dl) ==
    IF dl.post_processed THEN FALSE
    ELSE IF followers_active(dl) THEN TRUE
    ELSE IF AnyError(dl) THEN TRUE
    ELSE ~dl.post_processed

\* Download.is_metalink (aria2.py:491-498)
is_metalink(dl) == Len(dl.followers) > 0 /\ ~dl.bittorrent

\* len(self.actual_files) (aria2.py:525-555): the files of the download and
\* of its followers that are no metadata
actual_files(dl) ==
    CASE dl.kind = "direct" -> 1
      [] dl.kind = "metalink" -> Len(dl.followers)
      [] OTHER -> IF dl.followers = << >> THEN 0 ELSE dl.files

\* post_process moves the files whatever the status of the download
HandlesFiles_always(dl) == TRUE

\* `if not self.error` in post_process (aria2.py:569, 284-289)
HandlesFiles(dl) == dl.status # "error"

\* the path `to` after post_process handled nf files (aria2.py:582-595)
Moved(p, nf) ==
    CASE nf = 1 -> [p EXCEPT !.to = "file",
                             !.by = IF p.to = "absent" THEN "rename" ELSE @]
      [] nf > 1 -> [p EXCEPT !.to = "dir",
                             !.by = IF p.to = "absent" THEN "mkdir" ELSE @]
      [] OTHER -> p

\* Download.post_process (aria2.py:558-603) of the download add() returned,
\* with Download.cleanup (aria2.py:605-610)
post_process(dl, p) ==
    IF dl.post_processed THEN [dl |-> dl, paths |-> p]
    ELSE [dl |-> [dl EXCEPT !.post_processed = TRUE],
          paths |-> [(IF HandlesFiles(dl) THEN Moved(p, actual_files(dl))
                      ELSE p)
                     EXCEPT !.folder = "removed"]]

\* Downloader.halt (aria2.py:934-949) on the downloads: mark_done, and
\* remove(force=True) of what is not complete; the object keeps the status
\* of an errored download, the followers are not removed
Halted(dls) ==
    [i \in DOMAIN dls |->
        [dls[i] EXCEPT !.done = TRUE,
                       !.status = IF @ = "active" THEN "removed" ELSE @]]

\* the status of download g of dl
StatusOf(dl, g) == IF g = 0 THEN dl.status ELSE dl.followers[g]

\* download g of dl gets status st
WithStatus(dl, g, st) ==
    IF g = 0 THEN [dl EXCEPT !.status = st]
    ELSE [dl EXCEPT !.followers[g] = st]

\* the gids aria2 is working on
Active(dl) == {g \in 0..Len(dl.followers) : StatusOf(dl, g) = "active"}

\* Downloader.__init__ (aria2.py:748-802): no download, listening
InitAria ==
    /\ CacheAside
    /\ NotStarted
    /\ StepsIdle
    /\ downloads = << >>
    /\ halt_on_error \in BOOLEAN
    /\ is_halted = FALSE
    /\ is_listening = TRUE
    /\ notifications = << >>
    /\ paths = [folder |-> "none", to |-> "absent", by |-> "none",
                written |-> {}]
    /\ blocked = "idle"

\* Downloader.add(uri, to) (aria2.py:804-863)
add(shape) ==
    /\ downloads = << >>
    /\ ~is_halted
    /\ downloads' = <<NewDownload(shape, "folder")>>
    /\ paths' = [paths EXCEPT !.folder = "empty"]
    /\ UNCHANGED <<halt_on_error, is_halted, is_listening, notifications,
                   blocked>>

\* aria2 receives data of download g and writes it in its options.dir
Aria2Writes(g) ==
    /\ downloads # << >>
    /\ g \in Active(downloads[1])
    /\ paths' = [paths EXCEPT !.written = @ \cup {downloads[1].dir},
                              !.folder = IF @ = "removed" THEN @ ELSE "data"]
    /\ UNCHANGED <<downloads, halt_on_error, is_halted, is_listening,
                   notifications, blocked>>

\* what aria2 notifies once download g of dl is complete
CompleteEvents(dl, g) ==
    IF g > 0 /\ dl.kind = "torrent"
    THEN <<<<"bt_download_complete", g>>, <<"download_complete", g>>>>
    ELSE <<<<"download_complete", g>>>>

\* aria2 completes download g; a metalink or torrent read, it starts the
\* followers
Aria2Completes(g) ==
    /\ downloads # << >>
    /\ g \in Active(downloads[1])
    /\ LET dl == WithStatus(downloads[1], g, "complete") IN
       downloads' = <<IF g = 0
                      THEN [dl EXCEPT !.followers = [i \in 1..dl.n |-> "active"]]
                      ELSE dl>>
    /\ notifications' = IF is_listening
                        THEN notifications \o CompleteEvents(downloads[1], g)
                        ELSE notifications
    /\ UNCHANGED <<halt_on_error, is_halted, is_listening, paths, blocked>>

\* aria2 gives up download g
Aria2Errors(g) ==
    /\ downloads # << >>
    /\ g \in Active(downloads[1])
    /\ downloads' = <<WithStatus(downloads[1], g, "error")>>
    /\ notifications' = IF is_listening
                        THEN Append(notifications, <<"download_error", g>>)
                        ELSE notifications
    /\ UNCHANGED <<halt_on_error, is_halted, is_listening, paths, blocked>>

\* Downloader._cb_on_download_complete (aria2.py:1012-1036)
cb_on_download_complete ==
    /\ is_listening
    /\ notifications # << >>
    /\ Head(notifications)[1] = "download_complete"
    /\ LET g == Head(notifications)[2]
           dl == downloads[1]
           r == IF g = 0
                THEN IF dl.kind = "torrent" \/ is_metalink(dl)
                     THEN [dl |-> dl, paths |-> paths]
                     ELSE post_process(dl, paths)
                ELSE IF is_metalink(dl)
                        /\ \A i \in DOMAIN dl.followers :
                              dl.followers[i] = "complete"
                     THEN post_process(dl, paths)
                     ELSE [dl |-> dl, paths |-> paths]
       IN /\ downloads' = <<r.dl>>
          /\ paths' = r.paths
    /\ notifications' = Tail(notifications)
    /\ UNCHANGED <<halt_on_error, is_halted, is_listening, blocked>>

\* Downloader._cb_on_bt_download_complete (aria2.py:1038-1050): of a
\* follower, whose own post_process returns at once
cb_on_bt_download_complete ==
    /\ is_listening
    /\ notifications # << >>
    /\ Head(notifications)[1] = "bt_download_complete"
    /\ LET r == post_process(downloads[1], paths)
       IN /\ downloads' = <<r.dl>>
          /\ paths' = r.paths
    /\ notifications' = Tail(notifications)
    /\ UNCHANGED <<halt_on_error, is_halted, is_listening, blocked>>

\* Downloader._cb_on_download_error (aria2.py:1052-1061): post_process of
\* the Download of that gid, which for a follower is a new object without
\* folder, final path or callback; then halt
cb_on_download_error ==
    /\ is_listening
    /\ notifications # << >>
    /\ Head(notifications)[1] = "download_error"
    /\ LET g == Head(notifications)[2]
           r == IF g = 0 THEN post_process(downloads[1], paths)
                ELSE [dl |-> downloads[1], paths |-> paths]
       IN /\ downloads' = IF halt_on_error THEN Halted(<<r.dl>>) ELSE <<r.dl>>
          /\ paths' = r.paths
    /\ IF halt_on_error
       THEN /\ is_halted' = TRUE
            /\ is_listening' = FALSE
            /\ notifications' = << >>
       ELSE /\ notifications' = Tail(notifications)
            /\ UNCHANGED <<is_halted, is_listening>>
    /\ UNCHANGED <<halt_on_error, blocked>>

\* Downloader.halt (aria2.py:934-949), called by the owner of the
\* downloader (Downloader.__exit__)
halt_downloader ==
    /\ ~is_halted
    /\ downloads' = Halted(downloads)
    /\ is_halted' = TRUE
    /\ is_listening' = FALSE
    /\ notifications' = << >>
    /\ UNCHANGED <<halt_on_error, paths, blocked>>

\* the caller of add() calls block() on the Download (aria2.py:275-282)
BlockCall ==
    /\ downloads # << >>
    /\ blocked = "idle"
    /\ blocked' = "waiting"
    /\ UNCHANGED <<downloads, halt_on_error, is_halted, is_listening,
                   notifications, paths>>

\* block() leaves its loop (aria2.py:279-282)
BlockLeave ==
    /\ blocked = "waiting"
    /\ ~is_processing(downloads[1])
    /\ blocked' = IF downloads[1].status = "error" THEN "raised" ELSE "returned"
    /\ UNCHANGED <<downloads, halt_on_error, is_halted, is_listening,
                   notifications, paths>>

\* what aria2, the listening thread and the caller of block() do
AriaSteps ==
    \/ \E shape \in Shapes :
          add(shape) /\ UNCHANGED <<cacheVars, machineVars, stepVars>>
    \/ \E g \in 0..MaxFollowers :
          Aria2Writes(g) /\ UNCHANGED <<cacheVars, machineVars, stepVars>>
    \/ \E g \in 0..MaxFollowers :
          Aria2Completes(g) /\ UNCHANGED <<cacheVars, machineVars, stepVars>>
    \/ \E g \in 0..MaxFollowers :
          Aria2Errors(g) /\ UNCHANGED <<cacheVars, machineVars, stepVars>>
    \/ cb_on_download_complete /\ UNCHANGED <<cacheVars, machineVars, stepVars>>
    \/ cb_on_bt_download_complete
          /\ UNCHANGED <<cacheVars, machineVars, stepVars>>
    \/ cb_on_download_error /\ UNCHANGED <<cacheVars, machineVars, stepVars>>
    \/ BlockCall /\ UNCHANGED <<cacheVars, machineVars, stepVars>>
    \/ BlockLeave /\ UNCHANGED <<cacheVars, machineVars, stepVars>>

NextAria ==
    \/ AriaSteps
    \/ halt_downloader /\ UNCHANGED <<cacheVars, machineVars, stepVars>>

SpecAria == InitAria /\ [][NextAria]_vars

\* the same when the owner of the downloader never halts it
SpecAriaRun == InitAria /\ [][AriaSteps]_vars

(***************************************************************************)
(* Runs under a max_age bound                                              *)
(***************************************************************************)
\* policies with max_age set on the main policy, on the files sub-policy or
\* on a filter of it
AgePolicies ==
    {MainPolicy(TRUE, 0, a, 0, "lru", NoCheckAfter, 0, DefaultSubPolicy,
                DefaultSubPolicy) : a \in {1, 2}}
    \cup {MainPolicy(TRUE, 0, 0, 0, "lru", NoCheckAfter, 0, DefaultSubPolicy,
                     SubPolicy(TRUE, 0, a, 0, "lru", NoCheckAfter, 0, << >>)) :
             a \in {1, 2}}
    \cup {MainPolicy(TRUE, 0, 0, 0, "lru", NoCheckAfter, 0, DefaultSubPolicy,
                     SubPolicy(TRUE, 0, 0, 0, "lru", NoCheckAfter, 0,
                         <<Filter({"http"}, FALSE, 0, a, 0, "lru",
                                  NoCheckAfter, 0)>>)) :
             a \in {1, 2}}

\* a walked cache holding A, added at instant 1, and possibly B, added at
\* instant 2; C may be a candidate of the run
InitAges ==
    /\ policy \in AgePolicies
    /\ disk \in {[k \in Keys |->
                    CASE k = "A" -> EntryFile(k, 1, "d1")
                      [] k = "B" -> b
                      [] OTHER -> NoFile] :
                 b \in {NoFile, EntryFile("B", 2, "d1")}}
    /\ candidates \in {<< >>, <<CacheCandidate("C", SizeOf("C"), "d1", RefDate)>>}
    /\ declared = {"C"}
    /\ Created
    /\ entries = WalkFrom(disk, 1) /\ discovered = TRUE
    /\ todo = << >> /\ all_valid = TRUE /\ code = "none"
    /\ found = [examined |-> {}, unreachable |-> {}]
    /\ workers = << >> /\ futures = {} /\ is_running = FALSE
    /\ args = "-"
    /\ value = "-"

NextAges ==
    \/ ListedDryApply /\ UNCHANGED <<machineVars, ariaVars>>
    \/ ListedApply /\ UNCHANGED <<machineVars, ariaVars>>
    \/ ListedApplyCandidates /\ UNCHANGED <<machineVars, ariaVars>>
    \/ Tick /\ UNCHANGED <<machineVars, stepVars, ariaVars>>

SpecAges == InitAges /\ [][NextAges]_vars

(***************************************************************************)
(* ComputeSizes: free space per volume (steps/sizes.py)                    *)
(***************************************************************************)
\* the volumes (st_dev) a path can be on
Volumes == 1..3

\* what check_physical_space reads: the sizes get_needs sums, the volume of
\* each path and the free space of each volume
SizeInputs ==
    [base_fullsize : {3}, image_size : {2, 4},
     compressed : {0, 2}, cached : {0, 2}, to_cache : {0, 3},
     cache_dir : BOOLEAN,
     target_dev : {1}, build_dev : {1, 2}, cache_dev : Volumes,
     free : [Volumes -> {3, 5, 8}]]

\* ComputeSizes.get_needs
get_needs(a) ==
    [target |-> IF a.base_fullsize > a.image_size THEN a.base_fullsize
                ELSE a.image_size,
     build_dir |-> IF a.cache_dir THEN a.compressed - a.cached ELSE a.compressed,
     cache_dir |-> IF a.cache_dir THEN a.to_cache ELSE 0]

\* update_map: a volume already in the map keeps the needs of its first
\* path (the sum is computed and dropped) and gets one more path
update_map(volumes_map, volume, needs, path) ==
    IF volume \notin DOMAIN volumes_map
    THEN volumes_map @@ (volume :> [needs |-> needs, paths |-> <<path>>])
    ELSE [volumes_map EXCEPT ![volume].paths = Append(@, path)]

\* the map after the two or three update_map calls
VolumesMap(a) ==
    LET m0 == << >>
        m1 == update_map(m0, a.target_dev, get_needs(a).target, "target")
        m2 == update_map(m1, a.build_dev, get_needs(a).build_dir, "build_dir")
    IN  IF a.cache_dir
        THEN update_map(m2, a.cache_dev, get_needs(a).cache_dir, "cache_dir")
        ELSE m2

\* ComputeSizes.check_physical_space: 1 when a volume of the map needs more
\* than it has free, else 0
check_physical_space(a) ==
    IF \E v \in DOMAIN VolumesMap(a) : VolumesMap(a)[v].needs > a.free[v]
    THEN 1 ELSE 0

InitSizes ==
    /\ policy = MainPolicy(FALSE, 0, 0, 0, "lru", NoCheckAfter, 0,
                           DefaultSubPolicy, DefaultSubPolicy)
    /\ disk = [k \in Keys |-> NoFile]
    /\ declared = {}
    /\ Created
    /\ entries = << >> /\ candidates = << >> /\ discovered = FALSE
    /\ todo = << >> /\ all_valid = TRUE /\ code = "none"
    /\ found = [examined |-> {}, unreachable |-> {}]
    /\ workers = << >> /\ futures = {} /\ is_running = FALSE
    /\ args \in SizeInputs
    /\ value = "-"

\* the step runs up to its return
CheckPhysicalSpace ==
    /\ code = "none"
    /\ code' = "returned"
    /\ value' = check_physical_space(args)
    /\ UNCHANGED <<todo, all_valid, found, workers, futures, is_running, args>>

NextSizes == CheckPhysicalSpace /\ UNCHANGED <<cacheVars, machineVars, ariaVars>>

SpecSizes == InitSizes /\ [][NextSizes]_vars
(***************************************************************************)
(* Bounds over the kept items                                              *)
(***************************************************************************)
RECURSIVE SumSize(_)
SumSize(seq) == IF seq = << >> THEN 0 ELSE Head(seq).size + SumSize(Tail(seq))

KeySeq(seq) == [i \in 1..Len(seq) |-> seq[i].key]

\* the objects of seq satisfy the set bounds of node
WithinBounds(node, seq) ==
    /\ node.max_size # 0 => SumSize(seq) <= node.max_size
    /\ node.max_num # 0 => Len(seq) <= node.max_num

\* the first filter of sub to match key k (0: none)
FirstMatch(sub, k) ==
    IF \E i \in 1..Len(sub.filters) : FilterMatch(sub.filters[i], k)
    THEN CHOOSE i \in 1..Len(sub.filters) :
            /\ FilterMatch(sub.filters[i], k)
            /\ \A j \in 1..(i - 1) : ~FilterMatch(sub.filters[j], k)
    ELSE 0

ClaimedBy(sub, i, seq) == SelectSeq(seq, LAMBDA e : FirstMatch(sub, e.key) = i)

SubWithinBounds(sub, kind, seq) ==
    sub.enabled =>
        /\ WithinBounds(sub, SelectSeq(seq, LAMBDA e : KindOf(e.key) = kind))
        /\ \A i \in 1..Len(sub.filters) :
              WithinBounds(sub.filters[i],
                  ClaimedBy(sub, i, SelectSeq(seq, LAMBDA e : KindOf(e.key) = kind)))

JointBounds(seq) ==
    policy.enabled =>
        /\ WithinBounds(policy, seq)
        /\ SubWithinBounds(policy.files, "file", seq)
        /\ SubWithinBounds(policy.oci_images, "image", seq)

(***************************************************************************)
(* Properties                                                              *)
(***************************************************************************)
\* C1: in a run where every file deletion succeeded, right after
\* apply_candidates the entries and candidates jointly satisfy every
\* bound of the main policy, of each enabled sub-policy and of each filter
C1_BoundsAfterApplyCandidates ==
    (last.op = "apply_candidates" /\ ~last.failed)
        => JointBounds(entries \o candidates)

\* the objects a direct call of get_eviction_for did not return
Kept == SelectSeq(entries \o candidates, LAMBDA e : e.key \notin last.ev)

\* C2: after one get_eviction_for call on objects no earlier call has
\* processed, the objects it did not return for eviction satisfy the
\* bounds of the node, and those claimed by each filter the filter's bounds
C2_SingleCallWithinBounds ==
    last.op = "get_eviction_for"
        => /\ WithinBounds(NodeAt(last.key), Kept)
           /\ \A i \in 1..Len(NodeAt(last.key).filters) :
                 WithinBounds(NodeAt(last.key).filters[i],
                              ClaimedBy(NodeAt(last.key), i, Kept))

\* C2 over objects whose size is known
C2_KnownSizes ==
    (last.op = "get_eviction_for"
     /\ \A i \in 1..Len(candidates) : candidates[i].size >= 0)
        => /\ WithinBounds(NodeAt(last.key), Kept)
           /\ \A i \in 1..Len(NodeAt(last.key).filters) :
                 WithinBounds(NodeAt(last.key).filters[i],
                              ClaimedBy(NodeAt(last.key), i, Kept))

\* the policy and the cache of scenario S3, with C the only candidate
S3Before ==
    /\ policy.enabled /\ policy.max_size = 100 /\ policy.eviction = "oldest"
    /\ policy.max_num = 0 /\ policy.max_age = 0
    /\ KeysOf(entries) = {"A", "B"} /\ KeysOf(candidates) = {"C"}
    /\ Get(entries, "A").size = 60 /\ Get(entries, "B").size = 50
    /\ Get(entries, "A").added_on < Get(entries, "B").added_on
    /\ Get(entries, "B").added_on < Get(candidates, "C").added_on
    /\ Get(candidates, "C").size = 40

\* C3: scenario S3: apply_candidates evicts A, keeps B as an entry and C
\* as a candidate, and the kept sizes sum to 90
C3_ScenarioS3 ==
    [][(S3Before /\ last'.op = "apply_candidates" /\ ~last'.failed)
          => /\ KeysOf(entries') = {"B"}
             /\ KeysOf(candidates') = {"C"}
             /\ SumSize(entries' \o candidates') = 90]_vars

\* C8: a second apply_candidates right after a first one leaves entries
\* and candidates as the first one left them
C8_ApplyCandidatesIdempotent ==
    [][(last.op = "apply_candidates" /\ last'.op = "apply_candidates")
          => /\ KeySeq(entries') = KeySeq(entries)
             /\ KeySeq(candidates') = KeySeq(candidates)]_vars

\* C8 restricted to runs in which every file deletion succeeds
C8_WhenDeletionsSucceed ==
    [][(last.op = "apply_candidates" /\ last'.op = "apply_candidates"
        /\ ~last'.failed)
          => /\ KeySeq(entries') = KeySeq(entries)
             /\ KeySeq(candidates') = KeySeq(candidates)]_vars

\* C4: no CacheKey is a key of entries and of candidates at the same time
C4_KeysUnique == KeysOf(entries) \cap KeysOf(candidates) = {}

\* C5: should_cache never answers true for a candidate that no
\* apply_candidates pass has evaluated since it was added
C5_ShouldCacheScreened ==
    (last.op = "should_cache" /\ last.ret = "true") => last.key \in screened

\* C6: after introduce(X, src) returned true, X is in the cache and the size
\* of its entry is the size of the file at <root>/<CacheKey>
C6_IntroducedSize ==
    (last.op = "introduce" /\ last.ret = "true")
        => /\ last.key \in KeysOf(entries)
           /\ disk[last.key].exists
           /\ Get(entries, last.key).size = disk[last.key].size

\* introduce got past should_cache and then failed to copy or to write the
\* metadata
IntroduceFailed ==
    last.op = "introduce" /\ last.ret = "false" /\ last.queried # {}

\* C7: after a failed introduce(item, src) no file for item remains, item is
\* not in entries, and in_cache(item) is false
C7_FailedIntroduceLeavesNothing ==
    IntroduceFailed
        => /\ ~disk[last.key].exists
           /\ last.key \notin KeysOf(entries)

\* C9: when the remote digest cannot be retrieved during an outdacy check
\* (in_cache with check_outdacy, evict_outdated), the entry stays in entries
\* and on disk, and in_cache answers true
C9_DigestErrorKeepsEntry ==
    \A p \in last.queried :
        (last.op \in {"in_cache", "evict_outdated"} /\ p[2] = "error")
            => /\ p[1] \in KeysOf(entries)
               /\ disk[p[1]].exists
               /\ last.op = "in_cache" => last.ret = "true"

\* an in_cache(item, check_outdacy=True) whose digest retrieval failed
C9_Witness ==
    /\ last.op = "in_cache"
    /\ <<last.key, "error">> \in last.queried
    /\ last.ret = "true"
    /\ Get(entries, last.key).digest # ""

\* the entry is inside its own check window
InWindow(e, now_) ==
    e.check_after > 0 /\ e.last_checked_on + e.check_after >= now_

\* the check windows is_outdated_if is tried with
Windows == 1..2

\* C10: inside the check window is_outdated_if answers false without a
\* remote query whatever the digest, and evict_outdated neither queries nor
\* evicts an entry that is inside the window of its own check_after
C10_WindowSkipsQuery ==
    [][/\ \A i \in 1..Len(entries), cb \in Windows, q \in QueryOutcomes :
             entries[i].last_checked_on + cb >= now
                => /\ ~is_outdated_if(entries[i], cb, now, q).outdated
                   /\ ~is_outdated_if(entries[i], cb, now, q).queried
       /\ last'.op = "evict_outdated"
             => \A i \in 1..Len(entries) :
                   InWindow(entries[i], now)
                      => /\ entries[i].key \in KeysOf(entries')
                         /\ disk'[entries[i].key].exists
                         /\ \A p \in last'.queried : p[1] # entries[i].key]_vars

\* evict_outdated ran over an entry without digest that is inside its window
C10_Witness ==
    /\ last.op = "evict_outdated"
    /\ \E i \in 1..Len(entries) :
          entries[i].digest = "" /\ InWindow(entries[i], now)

\* the entry has a stored digest, was checked at this very instant and a
\* check window applies
JustChecked(e, now_) ==
    e.digest # "" /\ e.check_after > 0 /\ e.last_checked_on = now_

\* C11: scenario S1 (warm hit): for a declared entry whose last_checked_on
\* is now and which has an applicable check_after, no step of the run (apply
\* and evict_outdated of ApplyCachePolicy, in_cache of CheckURLs and of the
\* download steps) queries its remote digest, and in_cache answers true
C11_WarmHitNoQuery ==
    [][\A i \in 1..Len(entries) :
          (entries[i].key \in declared /\ JustChecked(entries[i], now))
             => /\ \A p \in last'.queried : p[1] # entries[i].key
                /\ (last'.op = "in_cache" /\ last'.key = entries[i].key)
                      => last'.ret = "true"]_vars

\* the steps that consume the cache
DownloadOps == {"DownloadImage", "download_file_worker", "DownloadingOCIImages"}

\* nb_used of the object the manager holds for key k, entry or candidate
UsedOf(ents, cands, k) ==
    IF k \in KeysOf(ents) THEN Get(ents, k).nb_used ELSE Get(cands, k).nb_used

\* C12: a download step adds exactly one to the nb_used of the entry it
\* copied its artifact from, and leaves the nb_used of every other object
\* of the cache as it was: no step counts a use without copying the
\* artifact out of the cache
C12_MarkUsageOncePerUse ==
    [][last'.op \in DownloadOps =>
          \A k \in KeysOf(entries') \cap (KeysOf(entries) \cup KeysOf(candidates)) :
             Get(entries', k).nb_used =
                UsedOf(entries, candidates, k)
                   + (IF last'.key = k /\ last'.ret = "cache" THEN 1 ELSE 0)]_vars

(***************************************************************************)
(* The step machine and the driver                                         *)
(***************************************************************************)
\* the nonzero codes a step can return
FailCodes == {"1", "2", "3", "4"}

\* C13: steps run strictly in the order of StepMachine.steps, each at most
\* once: the steps run so far are the steps of the list that follow the
\* virtual first one, a step's run starts only while every earlier run
\* returned 0, and once a step returned a nonzero code no step is run any
\* more and that code stays the result of ImageCreator.run
C13_StepsInOrder ==
    [][/\ built' => /\ Len(ran') < Len(steps')
                    /\ \A i \in 1..Len(ran') : ran'[i] = steps'[i + 1]
       /\ ran' # ran => /\ pc = "running" /\ result = "pending"
                        /\ Len(ran') = Len(ran) + 1
       /\ result \in FailCodes => ran' = ran /\ result' = result]_vars

\* a step returned a nonzero code after several steps had run, and the
\* process went on to its exit
C13_Witness ==
    pc = "exited" /\ result \in FailCodes /\ Len(ran) >= 3

\* C14: halt() invokes cleanup exactly once for each step index from
\* _current down to 1, in strictly decreasing order, and for no other
\* index; a cleanup that raised does not stop the walk
C14_CleanupDownToOne ==
    (halts > 0 /\ built) =>
        /\ Len(cleaned) = current
        /\ \A i \in 1..Len(cleaned) : cleaned[i].index = current + 1 - i

\* a halt in which the cleanup of a step raised and the steps below it were
\* cleaned up all the same
C14_Witness ==
    /\ halts > 0 /\ current >= 3
    /\ \E i \in 1..Len(cleaned) : cleaned[i].raised /\ cleaned[i].index > 1
    /\ cleaned[Len(cleaned)].index = 1

\* a call of StepMachine.halt
HaltStep == halts' = halts + 1 /\ built

\* the commands a step added to the log
NewCmds == SubSeq(cmds', Len(cmds) + 1, Len(cmds'))

\* the step issued an unlink of the output file
Unlinks == \E i \in 1..Len(NewCmds) : NewCmds[i][1] = "unlink"

\* C15 as stated: after halt() the output file exists if and only if it
\* existed and the run succeeded or keep_failed is set
C15_RemovesUnlessSucceededOrKept ==
    [][HaltStep =>
          (output' <=> (output /\ (succeeded \/ options.keep_failed)))]_vars

\* C15 amended: halt() unlinks the output file if and only if the file
\* exists, the run did not succeed and keep_failed is not set; the file is
\* gone when that unlink succeeds and stays when it fails; after a
\* successful run, or with keep_failed, the file is left as it was
C15_UnlinksUnlessSucceededOrKept ==
    [][HaltStep =>
          IF output /\ ~succeeded /\ ~options.keep_failed
          THEN /\ Unlinks
               /\ output' <=> ~NewCmds[Len(NewCmds)][3]
          ELSE ~Unlinks /\ output' = output]_vars

\* a failed run whose halt removed the output file it had written
C15_Witness ==
    /\ halts > 0 /\ ~succeeded /\ ~options.keep_failed /\ ~output
    /\ "DownloadImage" \in {ran[i] : i \in 1..Len(ran)}
    /\ \E i \in 1..Len(cmds) : cmds[i] = <<"unlink", "output_path", TRUE>>

\* C16: in check-only mode an output file that exists once the run has
\* returned after its last step is still there whatever follows (the halt
\* at exit)
C16_CheckKeepsOutput ==
    [][(options.check_only /\ result = "None" /\ output) => output']_vars

\* the umount and detach commands of the halts all succeeded
ReleasesSucceeded ==
    \A i \in 1..Len(cmds) : cmds[i][1] \in {"umount", "detach"} => cmds[i][3]

\* C17: whatever step the run stopped at, once halt() has completed and its
\* umount and detach commands succeeded, no partition is mounted, no loop
\* device is attached, and every umount was issued before the detach
C17_HaltReleasesImage ==
    (pc = "exited" /\ ReleasesSucceeded) =>
        /\ ~image.p1_mounted_on /\ ~image.p3_mounted_on /\ ~image.loop_dev
        /\ \A i, j \in 1..Len(cmds) :
              (cmds[i][1] = "detach" /\ cmds[j][1] = "umount") => j < i

\* a run that failed with both partitions known mounted, or one mounted,
\* and whose halt unmounted then detached
C17_Witness ==
    /\ pc = "exited" /\ ReleasesSucceeded /\ result \in FailCodes
    /\ \E i, j \in 1..Len(cmds) :
          cmds[i][1] = "detach" /\ cmds[j][1] = "umount"

\* C18: ImageCreator.halt() never raises, in whatever state it is called,
\* and a second halt() issues no umount, detach or unlink
C18_HaltIdempotent ==
    [][~haltRaised' /\ (halts' = 2 /\ halts = 1 => cmds' = cmds)]_vars

\* C19: with check_only the list of steps ends with ComputeSizes, no step
\* from DownloadImage on is ever run, and a run that goes through ran
\* ComputeSizes last, whichever optional steps were removed
C19_CheckStopsAfterSizes ==
    options.check_only =>
        /\ built => steps[Len(steps)] = "ComputeSizes"
        /\ \A i \in 1..Len(ran) : ran[i] \notin BuildSteps
        /\ result = "None" => ran[Len(ran)] = "ComputeSizes"

\* a check-only run without the optional steps went through and exited
C19_Witness ==
    /\ options.check_only /\ ~options.show_cache /\ ~options.cache_dir
    /\ pc = "exited" /\ result = "None"

\* C20 as stated: with show_cache no step from DownloadImage on is run, with
\* or without check_only
C20_ShowCacheExits ==
    options.show_cache => \A i \in 1..Len(ran) : ran[i] \notin BuildSteps

\* C20 amended: show_cache only keeps PrintingCache in the list of steps,
\* right after CheckCache (without it the step is removed and never run);
\* the steps from DownloadImage on are left out when check_only is set too
C20_ShowCacheKeepsPrinting ==
    /\ (options.show_cache /\ options.check_only) =>
          \A i \in 1..Len(ran) : ran[i] \notin BuildSteps
    /\ (options.show_cache /\ built) =>
          \E i \in 2..Len(steps) :
             steps[i] = "PrintingCache" /\ steps[i - 1] = "CheckCache"
    /\ ~options.show_cache => \A i \in 1..Len(ran) : ran[i] # "PrintingCache"

\* a run with show_cache and check_only printed the cache and ended after
\* ComputeSizes
C20_Witness ==
    /\ options.show_cache /\ options.check_only /\ result = "None"
    /\ \E i \in 1..Len(ran) : ran[i] = "PrintingCache"
    /\ ran[Len(ran)] = "ComputeSizes"

(***************************************************************************)
(* The steps that check and download the declared sources                  *)
(***************************************************************************)
\* C21: CheckURLs ends with 0 or 4 only, after it examined every declared
\* item, and with 4 exactly when it found a source unreachable, whether the
\* cache is enabled or not
C21_CheckURLsReportsAll ==
    /\ code \in {"none", "0", "4"}
    /\ code # "none" => /\ found.examined = declared
                        /\ (code = "4") <=> (found.unreachable # {})

\* C21 with the cache disabled
C21_WhenCacheDisabled == ~policy.enabled => C21_CheckURLsReportsAll

\* C22: DownloadingContent never returns 0 when the download of a declared
\* file failed
C22_NoZeroAfterFailure ==
    code = "0" => \A f \in Remotes : workers[f] # "failed"

\* every submitted download has terminated
AllTerminated == \A f \in Remotes : workers[f] \in Done

\* C23: once every download has terminated, run returns or raises
C23_ReturnsOnceAllTerminated == AllTerminated ~> (code # "none")

\* C23, second half: run does not return while a download is running
C23_NoReturnWhileRunning ==
    code \in {"0", "1"} => \A f \in Remotes : workers[f] \notin Working

\* C24: a mutation of the cache manager is executed by the driver thread
\* only, and by one thread at a time
C24_MutationsOnDriver ==
    /\ \A f \in Mutating : ThreadOf(f) = "driver"
    /\ Cardinality(Mutating) <= 1

(***************************************************************************)
(* Policy construction                                                     *)
(***************************************************************************)
CheckedBounds == {"max_size", "max_age", "max_num"}

\* some bound is set on the child and on the parent, and greater on the
\* child
ChildOver(child, parent) ==
    \E b \in CheckedBounds :
        child[b] # 0 /\ parent[b] # 0 /\ child[b] > parent[b]

\* C25: constructing a policy fails with "exceeds" exactly when a set bound
\* of a sub-policy is greater than the main policy's set bound, or a set
\* bound of a filter greater than its sub-policy's set bound
C25_ExceedsIffChildOver ==
    value \in {"ok", "exceeds"} =>
        ((value = "exceeds") <=>
            \E sub \in {args.files, args.oci_images} :
                \/ ChildOver(sub, args)
                \/ \E i \in 1..Len(sub.filters) : ChildOver(sub.filters[i], sub))

\* a filter above its sub-policy, under a main policy that gives no such
\* bound, is refused; equal bounds all the way down are accepted
C25_Witness ==
    /\ value = "exceeds"
    /\ args.max_num = 0 /\ args.files.max_num = 1
    /\ args.files.filters[1].max_num = 2
    /\ ~ChildOver(args.files, args) /\ ~ChildOver(args.oci_images, args)

(***************************************************************************)
(* Filters, reasons, version retention and disciplines of the engine       *)
(***************************************************************************)
\* the scan state in which the pass of filter j starts, in a call of
\* get_eviction_for over the indices sel of the objects es
RECURSIVE BeforeFilter(_, _, _, _, _)
BeforeFilter(es, sel, filters, now_, j) ==
    IF j = 1 THEN ScanState(es)
    ELSE FilterPass(es, sel, filters[j - 1], now_,
                    BeforeFilter(es, sel, filters, now_, j - 1))

AfterFilter(es, sel, filters, now_, j) ==
    FilterPass(es, sel, filters[j], now_, BeforeFilter(es, sel, filters, now_, j))

\* the objects that the pass of filter j marks as seen, those it adds to
\* the evictions, and its running total of items when it ends
Claims(es, sel, filters, now_, j) ==
    AfterFilter(es, sel, filters, now_, j).seen
        \ BeforeFilter(es, sel, filters, now_, j).seen

FilterEvicts(es, sel, filters, now_, j) ==
    {p[1] : p \in AfterFilter(es, sel, filters, now_, j).ev
                     \ BeforeFilter(es, sel, filters, now_, j).ev}

FilterCount(es, sel, filters, now_, j) ==
    AfterFilter(es, sel, filters, now_, j).num

\* the objects whose source filter j is the first to match
FirstToMatch(es, sel, filters, j) ==
    {sel[n] : n \in {m \in 1..Len(sel) :
        /\ FilterMatch(filters[j], es[sel[m]].key)
        /\ \A i \in 1..(j - 1) : ~FilterMatch(filters[i], es[sel[m]].key)}}

FirstMatchOnly(es, sel, filters, now_) ==
    \A j \in 1..Len(filters) :
        /\ Claims(es, sel, filters, now_, j) \subseteq FirstToMatch(es, sel, filters, j)
        /\ FilterEvicts(es, sel, filters, now_, j)
              \subseteq Claims(es, sel, filters, now_, j)
        /\ FilterCount(es, sel, filters, now_, j)
              <= Cardinality(Claims(es, sel, filters, now_, j))
        /\ \A i \in 1..(j - 1) :
              Claims(es, sel, filters, now_, i)
                  \cap Claims(es, sel, filters, now_, j) = {}

\* the files among the manager's objects, as the files sub-policy gets them
FileIdx(es) == OfKind(es, AllIdx(es), "file")

\* an engine run was the last operation
AfterRun == last.op \in {"dry_apply", "apply", "apply_candidates"}

\* C26: in an engine run, the call with the files sub-policy is such that
\* a filter claims only objects that it is the first to match, evicts and
\* counts only objects it claims, and claims none that an earlier filter
\* claimed
C26_FirstMatchingFilterOnly ==
    AfterRun => FirstMatchOnly(value.before, FileIdx(value.before),
                               policy.files.filters, now)

\* a run in which two filters match an object: the first claims it and the
\* second claims another one
C26_Witness ==
    /\ AfterRun
    /\ Len(policy.files.filters) = 2
    /\ \E x \in Claims(value.before, FileIdx(value.before),
                        policy.files.filters, now, 1) :
          FilterMatch(policy.files.filters[2], value.before[x].key)
    /\ Claims(value.before, FileIdx(value.before),
              policy.files.filters, now, 2) # {}

\* the files sub-policy of scenario S4: the first of its filters to match
\* an ftp source is pattern "^ftp://" with ignore set
S4Policy ==
    \E j \in 1..Len(policy.files.filters) :
        /\ policy.files.filters[j].pattern = {"ftp"}
        /\ policy.files.filters[j].ignore
        /\ \A i \in 1..(j - 1) : "ftp" \notin policy.files.filters[i].pattern

\* C27: under the policy of S4, every engine run over the object of source
\* ftp://h/z lists it with the reason "ignored pattern ^ftp://"
C27_IgnoredReasonEveryRun ==
    (AfterRun /\ S4Policy /\ "Z" \in KeysOf(value.es))
        => <<"Z", "ignored pattern ^ftp://">> \in value.listed

\* C27 for the first run only
C27_FirstRun ==
    [][(last.op = "init" /\ AfterRun' /\ S4Policy /\ "Z" \in KeysOf(value'.es))
          => <<"Z", "ignored pattern ^ftp://">> \in value'.listed]_vars

\* the keys of the n naturally-highest versions among the keys ks
Highest(ks, n) ==
    {k \in ks :
        Cardinality({h \in ks : VersionLess(VersionOf(k), VersionOf(h))}) < n}

\* C28: under an images sub-policy that keeps N versions, a run over
\* images of one ident lists all but the N naturally-highest versions, with
\* the reason "Version now obsolete"
C28_KeepsHighestVersions ==
    (AfterRun /\ policy.oci_images.keep_identified_versions # 0)
        => value.listed =
              {<<k, "Version now obsolete">> :
                  k \in KeysOf(value.es)
                         \ Highest(KeysOf(value.es),
                                    policy.oci_images.keep_identified_versions)}

\* C28, scenario S5: with the four images as entries and two versions kept,
\* img:1.0 and img:1.1 are evicted and img:1.2 and img:2.0 kept
C28_ScenarioS5 ==
    (AfterRun /\ policy.oci_images.keep_identified_versions = 2
     /\ KeysOf(value.es) = Images /\ \A i \in 1..Len(value.es) : ~value.es[i].cand)
        => value.listed = {<<"img:1.0", "Version now obsolete">>,
                           <<"img:1.1", "Version now obsolete">>}

\* the one node that bounds the number of items
CountingNode == IF policy.max_num # 0 THEN policy ELSE policy.files

\* only max_num is set, on one node without filters
OnlyMaxNum ==
    /\ CountingNode.max_num # 0
    /\ policy.files.filters = << >>
    /\ policy.oci_images.keep_identified_versions = 0

\* a comes strictly before b in the documented order of the discipline
DocumentedBefore(eviction, a, b) ==
    CASE eviction = "oldest" -> a.added_on < b.added_on
      [] eviction = "newest" -> a.added_on > b.added_on
      [] eviction = "largest" -> a.size < b.size
      [] eviction = "smallest" -> a.size > b.size
      [] eviction = "lru" -> a.last_used_on > b.last_used_on

\* the objects of the last run that it did not list
KeptIdx == {x \in 1..Len(value.es) :
              \A p \in value.listed : p[1] # value.es[x].key}

\* C29: with only max_num = N set on a node, a run over more than N
\* objects keeps N of them, none of which comes after an evicted one in the
\* documented order of the node's discipline
C29_KeepsFirstInOrder ==
    (AfterRun /\ OnlyMaxNum /\ Len(value.es) > CountingNode.max_num)
        => /\ Cardinality(KeptIdx) = CountingNode.max_num
           /\ \A k \in KeptIdx : \A e \in (1..Len(value.es)) \ KeptIdx :
                 ~DocumentedBefore(CountingNode.eviction, value.es[e], value.es[k])

\* lru over three objects with room for two: the one used longest ago goes
C29_Witness ==
    /\ AfterRun /\ OnlyMaxNum /\ CountingNode.eviction = "lru"
    /\ CountingNode.max_num = 2 /\ Len(value.es) = 3
    /\ \E e \in 1..3 : /\ KeptIdx = (1..3) \ {e}
                        /\ \A k \in KeptIdx :
                              value.es[k].last_used_on > value.es[e].last_used_on

\* the keys of the two items given were computed
Keyed == Len(value) = 2

\* C30: the CacheKey is injective: two File sources that differ in scheme,
\* host, path, params, query or fragment, two images that differ in
\* registry, repository, name, tag or digest, and a file and an image, have
\* different keys
C30_KeyInjective ==
    Keyed /\ args[1] # args[2] => value[1] # value[2]

\* a file whose URL path is written as pathlib keeps it: not empty, no
\* empty part, no "." and no ".."
Plain(item) ==
    item.kind = "file" => item.path # <<>> /\ resolve(item.path, <<>>) = item.path

\* C30, the part the code keeps: images among themselves, files with plain
\* paths among themselves, and a file against an image, have different keys
C30_PlainKeysInjective ==
    Keyed /\ args[1] # args[2] /\ Plain(args[1]) /\ Plain(args[2])
        => value[1] # value[2]

\* C30: no key of a file is the key of an image
C30_FileKeyNeverImageKey ==
    Keyed /\ args[1].kind # args[2].kind => value[1] # value[2]

\* the files of the cache directory that carry the full set of attributes
FullFiles == {k \in Keys : disk[k].exists /\ RequiredAttrs \subseteq args[k]}

\* C31: walk() completes without error and registers the files that carry
\* the full set of attributes, and no other: a file without digest, or with
\* digest and without another required attribute, is skipped
C31_WalkSkipsPartial ==
    code # "none" /\ policy.enabled
        => code = "returned" /\ KeysOf(entries) = FullFiles

\* C31, the part the code keeps: when walk() returns, the entries are the
\* files with the full set of attributes, and a file without digest never
\* makes it fail
C31_WhenWalkReturns ==
    /\ code = "returned" /\ policy.enabled => KeysOf(entries) = FullFiles
    /\ code = "raised"
          => /\ \E k \in Keys : disk[k].exists /\ file_is_entry(args[k])
                                   /\ EntryRaises(args[k])
             /\ entries = <<>> /\ ~discovered

\* the download and all its followers are complete
AllComplete(dl) ==
    /\ dl.status = "complete"
    /\ Len(dl.followers) = dl.n
    /\ \A i \in DOMAIN dl.followers : dl.followers[i] = "complete"

\* C32 as stated: data is written in the temporary folder only, and the
\* path `to` is created only by the rename done in post_process of a
\* download that completed without error
C32_ToOnlyByRename ==
    /\ paths.written \subseteq {"folder"}
    /\ paths.to # "absent"
          => /\ paths.by = "rename"
             /\ downloads[1].post_processed
             /\ AllComplete(downloads[1])

\* C32 amended: data is written in the temporary folder only, and the path
\* `to` is created only in post_process of a download that completed
\* without error, followers included: by the rename of the file when the
\* download has one file, by mkdir followed by the rename of each file
\* into it when it has several; in progress, errored or halted, nothing is
\* at `to`
C32_ToOnlyByPostProcess ==
    /\ paths.written \subseteq {"folder"}
    /\ paths.to # "absent"
          => /\ downloads[1].post_processed
             /\ AllComplete(downloads[1])
             /\ paths.by = IF actual_files(downloads[1]) = 1
                           THEN "rename" ELSE "mkdir"
             /\ paths.to = IF actual_files(downloads[1]) = 1
                           THEN "file" ELSE "dir"

\* a download of several files was moved to `to`, which mkdir created
C32_Witness ==
    /\ downloads # << >>
    /\ paths.to = "dir" /\ paths.by = "mkdir"
    /\ paths.written = {"folder"}
    /\ downloads[1].post_processed

\* C32: an errored download was post-processed and nothing is at `to`
C32_ErroredWitness ==
    /\ downloads # << >>
    /\ downloads[1].post_processed /\ downloads[1].status = "error"
    /\ paths.to = "absent"

\* aria2 has finished with the download: it and its followers are
\* complete or errored, and the listening thread has handled every
\* notification
Finished(dl) ==
    /\ dl.status \in {"complete", "error"}
    /\ dl.status = "complete" => Len(dl.followers) = dl.n
    /\ \A i \in DOMAIN dl.followers : dl.followers[i] \in {"complete", "error"}
    /\ notifications = << >>

\* C40: block() terminates once aria2 has finished with the download: its
\* loop ends, it returns when all is complete and raises when the download
\* or a follower errored
C40_BlockLeavesFinished ==
    /\ downloads # << >> /\ blocked = "waiting" /\ Finished(downloads[1])
          => ~is_processing(downloads[1])
    /\ blocked = "returned" => ~AnyError(downloads[1])
    /\ blocked = "raised" => AnyError(downloads[1])

\* C40, the part the code keeps: block() on a direct download that aria2
\* has finished with leaves its loop, returns when it is complete and
\* raises when it errored
C40_DirectLeaves ==
    downloads # << >> /\ downloads[1].kind = "direct"
        => /\ (blocked = "waiting" /\ Finished(downloads[1]))
                 => ~is_processing(downloads[1])
           /\ blocked = "returned" => downloads[1].status = "complete"
           /\ blocked = "raised" => downloads[1].status = "error"

\* CheckInputs has just refused the output path: the file exists, as it did
\* before the run (no earlier step writes it), and overwrite is not set
OutputRefused ==
    /\ ~options.overwrite /\ ~options.check_only
    /\ ran # << >> /\ ran[Len(ran)] = "CheckInputs"
    /\ result = "3"
    /\ output

\* C33: when the output path exists and overwrite is not set, CheckInputs
\* returns 3 and the output file that existed before the run is still
\* there after halt() has executed
C33_RefusedOutputSurvives ==
    [][OutputRefused => output']_vars

\* C33, the part the code keeps: CheckInputs itself leaves an existing
\* output file alone when overwrite is not set, and refuses it with 3 when
\* its earlier checks passed
C33_CheckInputsKeepsOutput ==
    [][(/\ pc = "running" /\ current + 1 < Len(steps)
        /\ StepAt(steps, current + 1) = "CheckInputs"
        /\ ran' = Append(ran, "CheckInputs")
        /\ output /\ ~options.overwrite)
          => /\ output'
             /\ ~options.check_only => pc' # "running"]_vars

\* C33, with keep_failed the refused output file survives the halt
C33_KeptWithKeepFailed ==
    [][(OutputRefused /\ options.keep_failed) => output']_vars

\* the keys a run listed
ListedKeys(v) == {p[1] : p \in v.listed}

\* the step is a run of op that follows a dry_apply
AfterDryApply(op) == last.op = "dry_apply" /\ last'.op = op

\* what the step should do if dry_apply changed nothing: a second dry_apply
\* returns the pairs of the first, and apply evicts the entries that apply
\* evicts on the cache as walk() finds it
SameAsAlone ==
    /\ AfterDryApply("dry_apply") => value'.listed = value.listed
    /\ AfterDryApply("apply")
          => ListedKeys(value')
                = {p[1] : p \in Listing(ManagerEvictionFor(WalkFrom(disk, 1), now))}

\* C34: dry_apply changes nothing that a later evaluation depends on: two
\* successive dry_apply() calls return the same (entry, reason) pairs and
\* apply() after dry_apply() evicts exactly what apply() alone evicts
C34_DryApplyChangesNothing ==
    [][SameAsAlone]_vars

\* C34, the part the code keeps: it is so under a policy without filters
C34_WithoutFilters ==
    [][(policy.files.filters = << >> /\ policy.oci_images.filters = << >>)
          => SameAsAlone]_vars

(***************************************************************************)
(* Stages of the eviction engine                                           *)
(***************************************************************************)
\* the objects of the manager a policy-level phase may keep
Cacheable(seq) == SelectSeq(seq, LAMBDA e : KindOf(e.key) # "file" \/ IsHttp(e.key))

AtMost(n, bound) == IF bound # 0 /\ bound < n THEN bound ELSE n

\* how many objects the first n filters of node leave of those they claim
RECURSIVE ClaimedLeft(_, _, _)
ClaimedLeft(node, seq, n) ==
    IF n = 0 THEN 0
    ELSE AtMost(Len(ClaimedBy(node, n, seq)), node.filters[n].max_num)
         + ClaimedLeft(node, seq, n - 1)

\* how many objects the filter phase of node leaves when max_num is the only
\* bound its filters set
FilterSurvivors(node, seq) ==
    Len(SelectSeq(seq, LAMBDA e : FirstMatch(node, e.key) = 0))
    + ClaimedLeft(node, seq, Len(node.filters))

\* a node whose bounds, and whose filters' bounds, are on the number only
CountsOnly(node) ==
    /\ node.max_size = 0 /\ node.max_age = 0
    /\ \A i \in 1..Len(node.filters) :
          /\ node.filters[i].max_size = 0 /\ node.filters[i].max_age = 0
          /\ ~node.filters[i].ignore

\* C35: an object the filter phase evicted does not count toward the totals
\* of the policy-level phase of the same node: after one get_eviction_for
\* call on a node bounded in number only, the call keeps as many objects as
\* the node's max_num allows among those the filter phase left
C35_EarlierEvictionsNotCounted ==
    (last.op = "get_eviction_for" /\ CountsOnly(NodeAt(last.key)))
        => Len(Kept) = AtMost(FilterSurvivors(NodeAt(last.key),
                                              Cacheable(entries \o candidates)),
                              NodeAt(last.key).max_num)

\* C35 holds where the filter and its node sort alike
C35_SameDiscipline ==
    (/\ last.op = "get_eviction_for" /\ CountsOnly(NodeAt(last.key))
     /\ \A i \in 1..Len(NodeAt(last.key).filters) :
           NodeAt(last.key).filters[i].eviction = NodeAt(last.key).eviction)
        => Len(Kept) = AtMost(FilterSurvivors(NodeAt(last.key),
                                              Cacheable(entries \o candidates)),
                              NodeAt(last.key).max_num)

\* C35: each entry appears at most once in the list a run prints
C35_ListedOnce ==
    AfterRun => \A p, q \in value.listed : p[1] = q[1] => p = q

(***************************************************************************)
(* Size on disk                                                            *)
(***************************************************************************)
\* bytes on disk of the files of the entries with keys ks
RECURSIVE DiskSize(_)
DiskSize(ks) ==
    IF ks = {} THEN 0
    ELSE LET k == CHOOSE x \in ks : TRUE
         IN  (IF disk[k].exists THEN disk[k].size ELSE 0) + DiskSize(ks \ {k})

\* an introduce that returned true in a run where every deletion succeeded
Introduced == last.op = "introduce" /\ last.ret = "true" /\ ~last.failed

\* C36: after each successful introduce the files of the entries of the
\* cache take no more than the main policy's max_size on disk, also when the
\* size the candidate declared is unknown or is not the size of the file
C36_DiskWithinMaxSize ==
    (Introduced /\ policy.enabled /\ policy.max_size # 0)
        => DiskSize(KeysOf(entries)) <= policy.max_size

\* C36 where introduce itself runs the apply_candidates pass and the entry
\* introduced declared the size of its file
C36_DeclaredSizeKnown ==
    [][(/\ ~considered /\ Introduced' /\ policy.enabled /\ policy.max_size # 0
        /\ Get(entries', last'.key).size = disk'[last'.key].size)
          => DiskSize(KeysOf(entries))' <= policy.max_size]_vars

(***************************************************************************)
(* Versions kept per ident                                                 *)
(***************************************************************************)
\* the kept objects that are versions of the image or file ident
VersionsKept(ident) ==
    {k \in KeysOf(entries \o candidates) :
        VersionOf(k) # << >> /\ IdentOf(k) = ident}

\* C37: with keep_identified_versions = N on the images sub-policy, after
\* apply_candidates at most N versions of one image remain among the entries
\* and the candidates taken together
C37_AtMostNVersionsKept ==
    (/\ last.op = "apply_candidates" /\ ~last.failed
     /\ policy.oci_images.keep_identified_versions # 0)
        => \A k \in Images :
              Cardinality(VersionsKept(IdentOf(k)))
                 <= policy.oci_images.keep_identified_versions

\* C37 over entries alone
C37_EntriesOnly ==
    (last.op = "apply_candidates" /\ ~last.failed /\ candidates = << >>
     /\ policy.oci_images.keep_identified_versions # 0)
        => \A k \in Images :
              Cardinality(VersionsKept(IdentOf(k)))
                 <= policy.oci_images.keep_identified_versions

(***************************************************************************)
(* max_age                                                                 *)
(***************************************************************************)
\* the sub-policy that takes the objects of the kind of key k
SubPolicyOf(k) == IF KindOf(k) = "image" THEN policy.oci_images ELSE policy.files

\* the max_age bounds that apply to key k: of the main policy, of its
\* sub-policy and of the first filter to match it
AgeBounds(k) ==
    {a \in {policy.max_age, SubPolicyOf(k).max_age} : a # 0}
    \cup {SubPolicyOf(k).filters[i].max_age : i \in
            {j \in 1..Len(SubPolicyOf(k).filters) :
                /\ j = FirstMatch(SubPolicyOf(k), k)
                /\ SubPolicyOf(k).filters[j].max_age # 0}}

\* e was added more than a max_age that applies to it ago
TooOld(e) == \E a \in AgeBounds(e.key) : e.added_on < now - a

EvictedForAge ==
    \A i \in 1..Len(value.before) :
        /\ <<value.before[i].key, "Too old for max_age">> \in value.listed
              => TooOld(value.before[i])
        /\ TooOld(value.before[i]) => value.before[i].key \in ListedKeys(value)

\* C38: at filter level and at policy level, a run never lists an object
\* added within the last max_age with a "too old" reason, and always lists an
\* object added more than max_age ago
C38_EvictedExactlyWhenTooOld == AfterRun => EvictedForAge

\* C38 for a run over objects no filter has examined yet
C38_UnseenObjects ==
    (AfterRun /\ \A i \in 1..Len(value.before) : ~value.before[i].seen)
        => EvictedForAge

(***************************************************************************)
(* Free space per volume                                                   *)
(***************************************************************************)
\* the summed needs of the paths of the run that are on volume v
NeedsOn(a, v) ==
    (IF a.target_dev = v THEN get_needs(a).target ELSE 0)
    + (IF a.build_dev = v THEN get_needs(a).build_dir ELSE 0)
    + (IF a.cache_dir /\ a.cache_dev = v THEN get_needs(a).cache_dir ELSE 0)

EnoughSpace(a) == \A v \in Volumes : NeedsOn(a, v) <= a.free[v]

\* C39: check_physical_space returns 0 only if on each volume the summed
\* needs of the paths on it are within its free space, and 1 whenever the
\* sum on a volume exceeds it
C39_SummedNeedsPerVolume ==
    code = "returned" => (value = 0 <=> EnoughSpace(args))

\* C39 where the target, the build directory and the cache directory are on
\* three volumes
C39_SeparateVolumes ==
    (/\ code = "returned"
     /\ args.build_dev # args.target_dev
     /\ args.cache_dir => args.cache_dev \notin {args.target_dev, args.build_dev})
        => (value = 0 <=> EnoughSpace(args))

================================================================================
